---- MODULE Spec2Model ----
(***************************************************************************)
(* clrenv: the lazy tree view of evaluate.py (SubClrEnv / RootClrEnv)      *)
(* with its three sources of a value: runtime overrides, environment       *)
(* variables and the merged yaml documents.                                *)
(*                                                                         *)
(* A Python str is a sequence of one-character strings, so that upper(),   *)
(* lower(), startswith(), split() and join() are computed character by     *)
(* character.  A Python value (a leaf or a nested mapping) is a function   *)
(* from relative key paths to cells; the cell at the empty path <<>> says  *)
(* what the value itself is.                                               *)
(***************************************************************************)
EXTENDS Integers, Sequences, FiniteSets, TLC

VARIABLES
    environ,            \* os.environ: variable name -> value
    documents,          \* what EnvReader(paths).read() yields for the yaml files on disk
    runtime_overrides,  \* RootClrEnv._runtime_overrides: key path -> (key -> value)
    root_cached_env,    \* RootClrEnv._cached_env
    held,               \* the SubClrEnv objects from the root's child down to the node
                        \* the caller holds: <<[key, cached_env], ...>>; <<>> is the root
    dst,                \* deepmerge: the map merged into
    src,                \* deepmerge: the map merged from
    dst_before,         \* deepmerge: dst as it was before the first call
    merges,             \* deepmerge: the calls made with dst and src so far
    objects,            \* deepmerge: the dict objects in memory, by identity
    sources,            \* deepmerge: the maps merged from, as they were built
    merged_from,        \* deepmerge: the sources merged into the one dst, in order
    environment_paths,  \* what the yaml files hold, highest precedence first
    backend,            \* the clrypt keyfile, the parameter store and the user database
    reader,             \* the EnvReader: its mode and the clients it has made
    result              \* what EnvReader.read() returned or raised

view_vars == <<environ, documents, runtime_overrides, root_cached_env, held>>

merge_vars == <<dst, src, dst_before, merges, objects, sources, merged_from>>

read_vars == <<environment_paths, backend, reader, result>>

vars == <<view_vars, merge_vars, read_vars>>

(***************************************************************************)
(* Bounds                                                                  *)
(***************************************************************************)
MaxOverrides == 2
MaxEnvVars == 1

(***************************************************************************)
(* str                                                                     *)
(***************************************************************************)
str_upper_char(c) ==
    CASE c = "a" -> "A" [] c = "b" -> "B" [] c = "c" -> "C" [] c = "d" -> "D"
      [] c = "e" -> "E" [] c = "f" -> "F" [] c = "g" -> "G" [] c = "h" -> "H"
      [] c = "i" -> "I" [] c = "j" -> "J" [] c = "k" -> "K" [] c = "l" -> "L"
      [] c = "m" -> "M" [] c = "n" -> "N" [] c = "o" -> "O" [] c = "p" -> "P"
      [] c = "q" -> "Q" [] c = "r" -> "R" [] c = "s" -> "S" [] c = "t" -> "T"
      [] c = "u" -> "U" [] c = "v" -> "V" [] c = "w" -> "W" [] c = "x" -> "X"
      [] c = "y" -> "Y" [] c = "z" -> "Z"
      [] OTHER -> c

str_lower_char(c) ==
    CASE c = "A" -> "a" [] c = "B" -> "b" [] c = "C" -> "c" [] c = "D" -> "d"
      [] c = "E" -> "e" [] c = "F" -> "f" [] c = "G" -> "g" [] c = "H" -> "h"
      [] c = "I" -> "i" [] c = "J" -> "j" [] c = "K" -> "k" [] c = "L" -> "l"
      [] c = "M" -> "m" [] c = "N" -> "n" [] c = "O" -> "o" [] c = "P" -> "p"
      [] c = "Q" -> "q" [] c = "R" -> "r" [] c = "S" -> "s" [] c = "T" -> "t"
      [] c = "U" -> "u" [] c = "V" -> "v" [] c = "W" -> "w" [] c = "X" -> "x"
      [] c = "Y" -> "y" [] c = "Z" -> "z"
      [] OTHER -> c

str_upper(s) == [i \in 1..Len(s) |-> str_upper_char(s[i])]

str_lower(s) == [i \in 1..Len(s) |-> str_lower_char(s[i])]

str_startswith(s, prefix) ==
    /\ Len(prefix) <= Len(s)
    /\ SubSeq(s, 1, Len(prefix)) = prefix

\* s[n:]
str_from(s, n) == SubSeq(s, n + 1, Len(s))

\* The index of the leftmost occurrence of sep in s, 0 when there is none.
str_find(s, sep) ==
    LET hits == {i \in 1..Len(s) : str_startswith(str_from(s, i - 1), sep)}
    IN  IF hits = {} THEN 0 ELSE CHOOSE i \in hits : \A j \in hits : i <= j

\* s.split(sep), for a non-empty separator.
RECURSIVE str_split(_, _)
str_split(s, sep) ==
    LET i == str_find(s, sep)
    IN  IF i = 0 THEN <<s>>
        ELSE <<SubSeq(s, 1, i - 1)>> \o str_split(str_from(s, i - 1 + Len(sep)), sep)

\* sep.join(parts)
RECURSIVE str_join(_, _)
str_join(sep, parts) ==
    IF parts = <<>> THEN <<>>
    ELSE IF Len(parts) = 1 THEN parts[1]
    ELSE parts[1] \o sep \o str_join(sep, Tail(parts))

\* needle in haystack, for two strs
str_contains(haystack, needle) ==
    \E i \in 0..Len(haystack) : str_startswith(str_from(haystack, i), needle)

(***************************************************************************)
(* Values                                                                  *)
(***************************************************************************)
Cell(ty, s) == [ty |-> ty, s |-> s]

\* A leaf value of Python type ty whose text is s.
Leaf(ty, s) == (<<>> :> Cell(ty, s))

Str(s) == Leaf("str", s)

\* None
NoneValue == Leaf("NoneType", <<>>)

\* {}
EmptyDict == Leaf("dict", <<>>)

IsNone(v) == v[<<>>].ty = "NoneType"

\* isinstance(v, abc.Mapping)
IsMapping(v) == v[<<>>].ty = "dict"

\* mapping.keys()
dict_keys(v) == {p[1] : p \in {q \in DOMAIN v : Len(q) = 1}}

\* mapping[key]
dict_item(v, key) ==
    LET under == {q \in DOMAIN v : Len(q) >= 1 /\ q[1] = key}
    IN  [p \in {Tail(q) : q \in under} |-> v[<<key>> \o p]]

\* mapping.get(key, default)
dict_get(v, key, default) ==
    IF <<key>> \in DOMAIN v THEN dict_item(v, key) ELSE default

\* not v
Falsy(v) ==
    \/ IsNone(v)
    \/ IsMapping(v) /\ DOMAIN v = {<<>>}
    \/ v[<<>>].ty = "str" /\ v[<<>>].s = <<>>

\* The mapping that holds value v under key, merged into mapping m.
With(m, key, v) == [p \in {<<key>> \o q : q \in DOMAIN v} |-> v[Tail(p)]] @@ m

(***************************************************************************)
(* SubClrEnv / RootClrEnv.  A node is given by the root's cache rc and the *)
(* chain ns of SubClrEnv objects leading to it; the calls return what they *)
(* raise or yield together with the caches as they leave them.             *)
(***************************************************************************)
CLRENV == <<"C", "L", "R", "E", "N", "V">>

DUNDER == <<"_", "_">>

UNDERSCORE == <<"_">>

DOT == <<".">>

\* A SubClrEnv as __init__ leaves it.
SubClrEnv(next_key) == [key |-> next_key, cached_env |-> NoneValue]

\* self._key_path
_key_path(ns) == [i \in 1..Len(ns) |-> ns[i].key]

\* self._sub_key_path(key)
_sub_key_path(ns, key) == _key_path(ns) \o <<key>>

_make_env_var_name(key_path, as_prefix) ==
    str_upper(str_join(DUNDER,
        <<CLRENV>> \o key_path \o (IF as_prefix THEN << <<>> >> ELSE <<>>)))

\* What a call that reads leaves behind: what it raised (exc), whether it
\* returns a SubClrEnv (node), the value (val) or keys it returns, the caches,
\* and how many times it called EnvReader.read (reads).
Raised(exc, rc, ns) ==
    [exc |-> exc, node |-> FALSE, val |-> NoneValue, keys |-> {}, rc |-> rc, ns |-> ns,
     reads |-> 0]

Returned(val, rc, ns) ==
    [exc |-> "", node |-> FALSE, val |-> val, keys |-> {}, rc |-> rc, ns |-> ns,
     reads |-> 0]

\* What r leaves behind when it is made after the call that left before
After(before, r) == [r EXCEPT !.reads = @ + before.reads]

\* A read that fails leaves an empty tree in the cache
Root_make_env_cached_on_failure(rc) ==
    IF documents.ok THEN [Returned(documents.env, documents.env, <<>>) EXCEPT !.reads = 1]
    ELSE [Raised(documents.exc, EmptyDict, <<>>) EXCEPT !.reads = 1]

\* RootClrEnv._make_env: reads the documents, which raises what
\* EnvReader.read raises when they are invalid.
Root_make_env(rc) ==
    IF documents.ok THEN [Returned(documents.env, documents.env, <<>>) EXCEPT !.reads = 1]
    ELSE [Raised(documents.exc, rc, <<>>) EXCEPT !.reads = 1]

\* SubClrEnv._make_env, and the assignment of _env: parent is what
\* self._parent._env left behind.
Sub_make_env(self, parent) ==
    IF parent.exc # ""
    THEN After(parent, Raised(parent.exc, parent.rc, Append(parent.ns, self)))
    ELSE After(parent,
               Returned(dict_get(parent.val, self.key, EmptyDict), parent.rc,
                        Append(parent.ns,
                               [self EXCEPT !.cached_env =
                                                dict_get(parent.val, self.key, EmptyDict)])))

\* The _env property.
RECURSIVE _env(_, _)
_env(rc, ns) ==
    IF ns = <<>>
    THEN IF Falsy(rc) THEN Root_make_env(rc) ELSE Returned(rc, rc, ns)
    ELSE IF ~Falsy(ns[Len(ns)].cached_env)
    THEN Returned(ns[Len(ns)].cached_env, rc, ns)
    ELSE Sub_make_env(ns[Len(ns)], _env(rc, SubSeq(ns, 1, Len(ns) - 1)))

\* The segment after the prefix as the variable's name spells it
_env_var_sub_keys_as_named(env_var_prefix) ==
    {str_split(str_from(env_var, Len(env_var_prefix)), DUNDER)[1] :
        env_var \in {n \in DOMAIN environ : str_startswith(n, env_var_prefix)}}

\* The keys the environment variables define under a node: lines 143-147.
_env_var_sub_keys(env_var_prefix) ==
    {str_lower(str_split(str_from(env_var, Len(env_var_prefix)), DUNDER)[1]) :
        env_var \in {n \in DOMAIN environ : str_startswith(n, env_var_prefix)}}

\* The keys of the runtime overrides are left out of the keys of the node
_sub_keys_in_env_only(e) ==
    IF e.exc # "" THEN e
    ELSE [e EXCEPT !.keys = dict_keys(e.val)
                            \cup _env_var_sub_keys(_make_env_var_name(_key_path(e.ns), TRUE)),
                   !.val = NoneValue]

\* The keys of the runtime overrides of a node: lines 139-140.
_override_sub_keys(key_path) ==
    IF key_path \in DOMAIN runtime_overrides
    THEN DOMAIN runtime_overrides[key_path]
    ELSE {}

\* _sub_keys, e being what self._env left behind.
_sub_keys_in(e) ==
    IF e.exc # "" THEN e
    ELSE [e EXCEPT !.val = NoneValue,
                   !.keys = dict_keys(e.val)
                            \cup _override_sub_keys(_key_path(e.ns))
                            \cup _env_var_sub_keys(_make_env_var_name(_key_path(e.ns), TRUE))]

_sub_keys(rc, ns) == _sub_keys_in(_env(rc, ns))

\* A key that is in no source is unknown, whatever the sub keys are
_evaluate_absent_unknown(key, sk) ==
    IF sk.exc # "" THEN sk
    ELSE After(sk, Returned(NoneValue, sk.rc, sk.ns))

\* The end of _evaluate_key: the key is in no source, sk is what
\* self._sub_keys left behind.
_evaluate_absent(key, sk) ==
    IF sk.exc # "" THEN sk
    ELSE After(sk, Returned(IF key \in sk.keys THEN EmptyDict ELSE NoneValue, sk.rc, sk.ns))

\* _evaluate_key from `value = self._env.get(key)` on, e being what
\* self._env left behind.
_evaluate_in_env(key, e) ==
    IF e.exc # "" THEN e
    ELSE IF ~IsNone(dict_get(e.val, key, NoneValue))
    THEN After(e, Returned(dict_get(e.val, key, NoneValue), e.rc, e.ns))
    ELSE After(e, _evaluate_absent(key, _sub_keys(e.rc, e.ns)))

\* _evaluate_key with the environment variable read before the override
_evaluate_key_env_first(rc, ns, key) ==
    IF _make_env_var_name(_sub_key_path(ns, key), FALSE) \in DOMAIN environ
    THEN Returned(Str(environ[_make_env_var_name(_sub_key_path(ns, key), FALSE)]), rc, ns)
    ELSE IF key \in _override_sub_keys(_key_path(ns))
    THEN Returned(runtime_overrides[_key_path(ns)][key], rc, ns)
    ELSE _evaluate_in_env(key, _env(rc, ns))

_evaluate_key(rc, ns, key) ==
    IF key \in _override_sub_keys(_key_path(ns))
    THEN Returned(runtime_overrides[_key_path(ns)][key], rc, ns)
    ELSE IF _make_env_var_name(_sub_key_path(ns, key), FALSE) \in DOMAIN environ
    THEN Returned(Str(environ[_make_env_var_name(_sub_key_path(ns, key), FALSE)]), rc, ns)
    ELSE _evaluate_in_env(key, _env(rc, ns))

\* raise KeyError(f"Unknown key in {self}: {key}"): the message formats
\* self, and e is what the self._env of __repr__ left behind.
_unknown_key(e) ==
    IF e.exc # "" THEN e
    ELSE After(e, Raised("KeyError", e.rc, e.ns))

\* __getitem__ after `value = self._evaluate_key(key)`.  When node is TRUE
\* the call returns SubClrEnv(self, key).
_getitem_value(v) ==
    IF v.exc # "" THEN v
    ELSE IF IsNone(v.val) THEN After(v, _unknown_key(_env(v.rc, v.ns)))
    ELSE IF IsMapping(v.val) THEN [v EXCEPT !.node = TRUE, !.val = EmptyDict]
    ELSE v

\* node[key]
__getitem__(rc, ns, key) ==
    IF str_startswith(key, UNDERSCORE)
    THEN Raised("KeyError", rc, ns)
    ELSE _getitem_value(_evaluate_key(rc, ns, key))

\* The KeyError of the item read, as it is
_getattr_item_reraised(r) == r

\* except KeyError as e: raise AttributeError(str(e))
_getattr_item(r) ==
    IF r.exc = "KeyError" THEN [r EXCEPT !.exc = "AttributeError"] ELSE r

\* node.key, for a key that is no attribute of the object: a key that starts
\* with _ makes object.__getattribute__ raise AttributeError.
__getattr__(rc, ns, key) ==
    IF str_startswith(key, UNDERSCORE)
    THEN Raised("AttributeError", rc, ns)
    ELSE _getattr_item(__getitem__(rc, ns, key))

\* root.k1.k2 ... kn: every read is made on the SubClrEnv that the read
\* before it returned; a value that is no SubClrEnv has no such attribute.
RECURSIVE _navigate(_, _, _)

\* r is what the read of the first name left behind
_navigate_from(names, r) ==
    IF r.exc # "" \/ Len(names) = 1 THEN r
    ELSE IF r.node
    THEN After(r, _navigate(r.rc, Append(r.ns, SubClrEnv(Head(names))), Tail(names)))
    ELSE After(r, Raised("AttributeError", r.rc, r.ns))

_navigate(rc, ns, names) == _navigate_from(names, __getattr__(rc, ns, Head(names)))

\* PrimitiveValue.__args__
PrimitiveTypes == {"bool", "int", "float", "str"}

\* The loop of set_runtime_override that checks that the key exists,
\*     assert name in parent; parent = parent[name]
\* standing on a value that is no SubClrEnv: `name in parent` is the substring
\* test on a str and a TypeError on a number; a str has no str index.
_check_exists_in_value(rc, val, name) ==
    IF val[<<>>].ty = "str" /\ ~str_contains(val[<<>>].s, name)
    THEN Raised("AssertionError", rc, <<>>)
    ELSE Raised("TypeError", rc, <<>>)

\* The same loop standing on the SubClrEnv ns: `name in parent` is
\* Mapping.__contains__, self[name] with KeyError caught.
RECURSIVE _check_exists(_, _, _)

\* item is what parent[name] left behind
_check_exists_item(names, item) ==
    IF item.exc # "" THEN item
    ELSE IF Len(names) = 1 THEN After(item, Returned(NoneValue, item.rc, <<>>))
    ELSE IF item.node
    THEN After(item, _check_exists(item.rc, Append(item.ns, SubClrEnv(Head(names))),
                                   Tail(names)))
    ELSE After(item, _check_exists_in_value(item.rc, item.val, names[2]))

\* The assertion fails on a SubClrEnv: its message f'{name, parent}' formats
\* parent, and e is what the self._env of __repr__ left behind.
_not_in_parent(e) ==
    IF e.exc # "" THEN e
    ELSE After(e, Raised("AssertionError", e.rc, <<>>))

\* contains is what `name in parent` left behind
_check_exists_contains(names, contains) ==
    IF contains.exc = "KeyError"
    THEN After(contains, _not_in_parent(_env(contains.rc, contains.ns)))
    ELSE IF contains.exc # "" THEN contains
    ELSE After(contains,
               _check_exists_item(names, __getitem__(contains.rc, contains.ns, Head(names))))

_check_exists(rc, ns, names) ==
    _check_exists_contains(names, __getitem__(rc, ns, Head(names)))

\* key_path as the caller gives it: a str (s) or a sequence of keys (p).
KeyPathStr(s) == [is_str |-> TRUE, s |-> s, p |-> <<>>]

KeyPathSeq(p) == [is_str |-> FALSE, s |-> <<>>, p |-> p]

\* What a call that writes leaves behind: what it raised, the root's cache,
\* the store, and how many times it called EnvReader.read.
Stored(exc, rc, overrides) ==
    [exc |-> exc, rc |-> rc, overrides |-> overrides, reads |-> 0]

\* The entry stored at the root's own key path, whatever its parents
_store_at_root(parents, key, value) ==
    IF <<>> \in DOMAIN runtime_overrides
    THEN [runtime_overrides EXCEPT ![<<>>] = (key :> value) @@ @]
    ELSE (<<>> :> (key :> value)) @@ runtime_overrides

\* self._root._runtime_overrides[parents][key_path[-1]] = value
_store(parents, key, value) ==
    IF parents \in DOMAIN runtime_overrides
    THEN [runtime_overrides EXCEPT ![parents] = (key :> value) @@ @]
    ELSE (parents :> (key :> value)) @@ runtime_overrides

\* Any value is stored
_set_checked_any_value(names, value, checked) ==
    IF checked.exc # "" THEN After(checked, Stored(checked.exc, checked.rc, runtime_overrides))
    ELSE After(checked,
               Stored("", checked.rc,
                      _store(SubSeq(names, 1, Len(names) - 1), names[Len(names)], value)))

\* set_runtime_override after the loop, which left checked behind
_set_checked(names, value, checked) ==
    IF checked.exc # "" THEN After(checked, Stored(checked.exc, checked.rc, runtime_overrides))
    ELSE IF value[<<>>].ty \notin PrimitiveTypes
    THEN After(checked, Stored("ValueError", checked.rc, runtime_overrides))
    ELSE After(checked,
               Stored("", checked.rc,
                      _store(SubSeq(names, 1, Len(names) - 1), names[Len(names)], value)))

\* The key path is not checked
_set_names_unchecked(rc, names, value) ==
    _set_checked(names, value, Returned(NoneValue, rc, <<>>))

\* set_runtime_override on the names of a non-empty key_path
_set_names(rc, names, value) ==
    _set_checked(names, value, _check_exists(rc, <<>>, names))

\* RootClrEnv.set_runtime_override
set_runtime_override(rc, key_path, value) ==
    IF (key_path.is_str /\ key_path.s = <<>>) \/ (~key_path.is_str /\ key_path.p = <<>>)
    THEN Stored("ValueError", rc, runtime_overrides)
    ELSE _set_names(rc, IF key_path.is_str THEN str_split(key_path.s, DOT) ELSE key_path.p,
                    value)

\* SubClrEnv.__setitem__
__setitem__(rc, ns, key, value) ==
    set_runtime_override(rc, KeyPathSeq(_sub_key_path(ns, key)), value)

\* SubClrEnv.__setattr__: object.__setattr__ for a key that starts with _
__setattr__(rc, ns, key, value) ==
    IF str_startswith(key, UNDERSCORE)
    THEN Stored("", rc, runtime_overrides)
    ELSE __setitem__(rc, ns, key, value)

\* del self._root._runtime_overrides[self._key_path], every key of the node
__delitem___key_path(rc, ns, key) ==
    IF key \in _override_sub_keys(_key_path(ns))
    THEN Stored("", rc, [p \in DOMAIN runtime_overrides \ {_key_path(ns)} |->
                            runtime_overrides[p]])
    ELSE Stored("KeyError", rc, runtime_overrides)

\* SubClrEnv.__delitem__: del self._root._runtime_overrides[self._key_path][key]
__delitem__(rc, ns, key) ==
    IF key \in _override_sub_keys(_key_path(ns))
    THEN Stored("", rc, [runtime_overrides EXCEPT ![_key_path(ns)] =
                            [k \in DOMAIN @ \ {key} |-> @[k]]])
    ELSE Stored("KeyError", rc, runtime_overrides)

\* Only the overrides of the root's own keys are cleared
clear_runtime_overrides_of_root(rc) ==
    Stored("", rc, [p \in DOMAIN runtime_overrides \ {<<>>} |-> runtime_overrides[p]])

\* RootClrEnv.clear_runtime_overrides
clear_runtime_overrides(rc) == Stored("", rc, [p \in {} |-> <<>>])

(***************************************************************************)
(* deepmerge.  The maps are merged by value: which dict objects the        *)
(* entries of dst are afterwards is not part of the value.                 *)
(***************************************************************************)
\* Path q lies at or below path p.
IsUnder(q, p) == Len(q) >= Len(p) /\ SubSeq(q, 1, Len(p)) = p

\* The keys of the mapping at path p of v.
keys_at(v, p) == {q[Len(p) + 1] : q \in {r \in DOMAIN v : Len(r) = Len(p) + 1 /\ IsUnder(r, p)}}

\* The value at path p of v.
value_at(v, p) ==
    [q \in {SubSeq(r, Len(p) + 1, Len(r)) : r \in {t \in DOMAIN v : IsUnder(t, p)}} |-> v[p \o q]]

\* The elements of a set in some order: the order a dict yields its items.
RECURSIVE items_order(_)
items_order(S) ==
    IF S = {} THEN <<>>
    ELSE LET k == CHOOSE x \in S : TRUE IN <<k>> \o items_order(S \ {k})

\* Lists are joined when dst and src both hold one
deepmerge_src_value_appended(d, s, q) ==
    IF q \in DOMAIN d /\ d[q].ty = "list" /\ s[q].ty = "list"
    THEN Cell("list", d[q].s \o s[q].s)
    ELSE s[q]

\* src_value, as it is assigned at path q
deepmerge_src_value(d, s, q) == s[q]

\* Every key of _src that _dst holds is descended into or left alone
deepmerge_descended_or_kept(d, s, p) ==
    {key \in keys_at(s, p) : p \o <<key>> \in DOMAIN d}

\* The keys of _src for which dst_value and src_value are both mappings.
deepmerge_descended(d, s, p) ==
    {key \in keys_at(s, p) :
        /\ p \o <<key>> \in DOMAIN d
        /\ d[p \o <<key>>].ty = "dict"
        /\ s[p \o <<key>>].ty = "dict"}

\* _dst[key] = src_value for the given keys of the maps at path p.
deepmerge_assign(d, s, p, keys) ==
    LET taken == {q \in DOMAIN s : \E key \in keys : IsUnder(q, p \o <<key>>)}
        kept  == {q \in DOMAIN d : ~ \E key \in keys : IsUnder(q, p \o <<key>>)}
    IN  [q \in kept \cup taken |-> IF q \in taken THEN deepmerge_src_value(d, s, q) ELSE d[q]]

\* One pass of the for loop over _src.items(), for the pair popped at path p.
deepmerge_items(d, s, p) ==
    deepmerge_assign(d, s, p, keys_at(s, p) \ deepmerge_descended(d, s, p))

\* The pairs the pass appends to to_merge.
deepmerge_appended(d, s, p) ==
    items_order({p \o <<key>> : key \in deepmerge_descended(d, s, p)})

\* while to_merge: _dst, _src = to_merge.pop() ...
RECURSIVE deepmerge_loop(_, _, _)
deepmerge_loop(d, s, to_merge) ==
    IF to_merge = <<>> THEN d
    ELSE deepmerge_loop(
            deepmerge_items(d, s, to_merge[Len(to_merge)]),
            s,
            SubSeq(to_merge, 1, Len(to_merge) - 1)
                \o deepmerge_appended(d, s, to_merge[Len(to_merge)]))

\* deepmerge(dst, src): dst as the call leaves it.
deepmerge(d, s) == deepmerge_loop(d, s, <<<<>>>>)

\* The dict object built for the map at path p of the value named n.
ObjectId(n, p) == <<n, p>>

\* The dict objects of the value v, built as the value named n: an object
\* maps its keys to leaves and, for its nested maps, to their objects.
allocate(n, v) ==
    [id \in {ObjectId(n, p) : p \in {q \in DOMAIN v : v[q].ty = "dict"}} |->
        [key \in keys_at(v, id[2]) |->
            IF v[id[2] \o <<key>>].ty = "dict"
            THEN Cell("dict", ObjectId(n, id[2] \o <<key>>))
            ELSE v[id[2] \o <<key>>]]]

\* The key paths of the object id of h, and the cell at one of them.
RECURSIVE object_paths(_, _)
object_paths(h, id) ==
    {<<>>} \cup UNION { {<<key>> \o q :
                            q \in IF h[id][key].ty = "dict"
                                  THEN object_paths(h, h[id][key].s) ELSE {<<>>}} :
                        key \in DOMAIN h[id] }

RECURSIVE object_cell(_, _, _)
object_cell(h, id, p) ==
    IF p = <<>> THEN Cell("dict", <<>>)
    ELSE IF h[id][p[1]].ty = "dict" THEN object_cell(h, h[id][p[1]].s, Tail(p))
    ELSE h[id][p[1]]

\* The value of the object id of h: what == compares.
object_value(h, id) == [p \in object_paths(h, id) |-> object_cell(h, id, p)]

\* The elements of a set in every order.
RECURSIVE items_orders(_)
items_orders(S) ==
    IF S = {} THEN {<<>>}
    ELSE UNION { {<<x>> \o o : o \in items_orders(S \ {x})} : x \in S }

\* The keys of _src for which dst_value and src_value are both mappings.
deepmerge_objects_descended(h, d, s) ==
    {key \in DOMAIN h[s] :
        /\ key \in DOMAIN h[d]
        /\ h[d][key].ty = "dict"
        /\ h[s][key].ty = "dict"}

\* _dst[key] = src_value for the given keys: the very object of src_value
\* when it is a mapping.
deepmerge_objects_assigned(h, d, s, keys) == [key \in keys |-> h[s][key]]

\* The for loop over _src.items() for the pair (d, s) of objects.
deepmerge_objects_items(h, d, s) ==
    [h EXCEPT ![d] =
        deepmerge_objects_assigned(h, d, s, DOMAIN h[s] \ deepmerge_objects_descended(h, d, s))
        @@ h[d]]

\* while to_merge: the objects as deepmerge leaves them, for every order in
\* which the items of a dict can come.
RECURSIVE deepmerge_objects_loop(_, _)
deepmerge_objects_loop(h, to_merge) ==
    IF to_merge = <<>> THEN {h}
    ELSE LET d == to_merge[Len(to_merge)][1]
             s == to_merge[Len(to_merge)][2]
         IN  UNION { deepmerge_objects_loop(
                        deepmerge_objects_items(h, d, s),
                        SubSeq(to_merge, 1, Len(to_merge) - 1) \o appended) :
                     appended \in items_orders(
                        {<<h[d][key].s, h[s][key].s>> : key \in deepmerge_objects_descended(h, d, s)}) }

\* deepmerge(dst, src) on the objects d and s.
deepmerge_objects(h, d, s) == deepmerge_objects_loop(h, <<<<d, s>>>>)

\* lazy_env._merge(dst, src): the recursive merge, dst as the call leaves it.
RECURSIVE _merge(_, _)
_merge(d, s) ==
    LET item(key) ==
            IF key \notin dict_keys(s) THEN dict_item(d, key)
            ELSE IF /\ key \in dict_keys(d)
                    /\ IsMapping(dict_item(d, key))
                    /\ IsMapping(dict_item(s, key))
                 THEN _merge(dict_item(d, key), dict_item(s, key))
                 ELSE dict_item(s, key)
    IN  [p \in {<<>>} \cup UNION { {<<key>> \o q : q \in DOMAIN item(key)} :
                                  key \in dict_keys(d) \cup dict_keys(s) }
            |-> IF p = <<>> THEN d[<<>>] ELSE item(p[1])[Tail(p)]]

(***************************************************************************)
(* os.path.expandvars and os.path.expanduser                               *)
(***************************************************************************)
\* The characters \w matches, with re.ASCII.
WordChars ==
    { "a", "b", "c", "d", "e", "f", "g", "h", "i", "j", "k", "l", "m",
      "n", "o", "p", "q", "r", "s", "t", "u", "v", "w", "x", "y", "z",
      "A", "B", "C", "D", "E", "F", "G", "H", "I", "J", "K", "L", "M",
      "N", "O", "P", "Q", "R", "S", "T", "U", "V", "W", "X", "Y", "Z",
      "0", "1", "2", "3", "4", "5", "6", "7", "8", "9", "_" }

\* The least element of a non-empty set of integers.
Least(S) == CHOOSE i \in S : \A j \in S : i <= j

\* The length of the run of word characters of path that starts at index i.
word_run(path, i) ==
    LET stops == {j \in i..Len(path) : path[j] \notin WordChars}
    IN  IF stops = {} THEN Len(path) - i + 1 ELSE Least(stops) - i

\* The length of what \w+|\{[^}]*\} matches after the "$" at index k of
\* path, 0 when it does not match.
expandvars_group(path, k) ==
    IF k + 1 > Len(path) THEN 0
    ELSE IF path[k + 1] \in WordChars THEN word_run(path, k + 1)
    ELSE IF path[k + 1] = "{"
         THEN LET closes == {j \in (k + 2)..Len(path) : path[j] = "}"}
              IN  IF closes = {} THEN 0 ELSE Least(closes) - k
    ELSE 0

\* name = m.group(1), without its braces
expandvars_name(group) ==
    IF Len(group) >= 2 /\ group[1] = "{" /\ group[Len(group)] = "}"
    THEN SubSeq(group, 2, Len(group) - 1)
    ELSE group

\* The loop of posixpath.expandvars: search(path, i) and substitute.
RECURSIVE expandvars_from(_, _)
expandvars_matched(path, k, n, name) ==
    IF name \in DOMAIN environ
    THEN expandvars_from(
            SubSeq(path, 1, k - 1) \o environ[name] \o SubSeq(path, k + n + 1, Len(path)),
            k - 1 + Len(environ[name]))
    ELSE expandvars_from(path, k + n)

expandvars_at(path, k) ==
    expandvars_matched(path, k, expandvars_group(path, k),
        expandvars_name(SubSeq(path, k + 1, k + expandvars_group(path, k))))

expandvars_from(path, i) ==
    LET found == {k \in (i + 1)..Len(path) : path[k] = "$" /\ expandvars_group(path, k) > 0}
    IN  IF found = {} THEN path ELSE expandvars_at(path, Least(found))

\* os.path.expandvars(path)
expandvars(path) == expandvars_from(path, 0)

HOME == <<"H", "O", "M", "E">>

\* s.rstrip("/")
str_rstrip_slash(s) ==
    LET kept == {i \in 1..Len(s) : s[i] # "/"}
    IN  IF kept = {} THEN <<>> ELSE SubSeq(s, 1, CHOOSE i \in kept : \A j \in kept : j <= i)

\* (userhome + path[i:]) or "/"
expanduser_joined(path) == IF path = <<>> THEN <<"/">> ELSE path

\* os.path.expanduser(path), for a path that starts with "~": the home of
\* the invoking user for "~" and "~/...", the home of the named user for
\* "~name", the path itself when the user database has no such user.
expanduser(path) ==
    LET slashes == {i \in 2..Len(path) : path[i] = "/"}
        i == IF slashes = {} THEN Len(path) + 1 ELSE Least(slashes)
        name == SubSeq(path, 2, i - 1)
        tail == SubSeq(path, i, Len(path))
    IN  IF i = 2
        THEN IF HOME \in DOMAIN environ
             THEN expanduser_joined(str_rstrip_slash(environ[HOME]) \o tail)
             ELSE expanduser_joined(str_rstrip_slash(backend.pw_dir) \o tail)
        ELSE IF name \in DOMAIN backend.users
             THEN expanduser_joined(str_rstrip_slash(backend.users[name]) \o tail)
             ELSE path

(***************************************************************************)
(* EnvReader                                                               *)
(***************************************************************************)
CLRENV_MODE == <<"C", "L", "R", "E", "N", "V", "_", "M", "O", "D", "E">>

OFFLINE_PARAMETER_FLAG == <<"C", "L", "R", "E", "N", "V", "_", "O", "F", "F", "L", "I", "N", "E", "_", "D", "E", "V">>

OFFLINE_PARAMETER_VALUE == <<"C", "L", "R", "E", "N", "V", "_", "O", "F", "F", "L", "I", "N", "E", "_", "P", "L", "A", "C", "E", "H", "O", "L", "D", "E", "R">>

KeyfilePrefix == <<"^", "k", "e", "y", "f", "i", "l", "e", " ">>

ParameterPrefix == <<"^", "p", "a", "r", "a", "m", "e", "t", "e", "r", " ">>

\* os.environ.get(name)
environ_get(name) == IF name \in DOMAIN environ THEN Str(environ[name]) ELSE NoneValue

\* EnvReader.__init__: the reader has made no client and loaded no keyfile.
EnvReader ==
    [ mode           |-> environ_get(CLRENV_MODE),
      ssm_client     |-> FALSE,
      clrypt_keyfile |-> FALSE,
      clrypt_loads   |-> 0,
      ssm_requests   |-> {} ]

\* What a call of the reader leaves: the exception raised ("" for none),
\* the value returned and the reader as it is afterwards.
Resolved(exc, value, r) == [exc |-> exc, value |-> value, reader |-> r]

\* self.clrypt_keyfile = clrypt.read_file_as_dict("keys", "keys"), once
evaluate_clrypt_key_loaded(r) ==
    IF r.clrypt_keyfile THEN r
    ELSE [r EXCEPT !.clrypt_keyfile = TRUE, !.clrypt_loads = @ + 1]

\* EnvReader.evaluate_clrypt_key
evaluate_clrypt_key(r, name) ==
    Resolved("",
        IF name \in DOMAIN backend.keyfile THEN backend.keyfile[name] ELSE <<>>,
        evaluate_clrypt_key_loaded(r))

\* self.ssm_client.get_parameter(Name=name, WithDecryption=True)
get_parameter(r, name) ==
    IF ~ backend.online THEN Resolved("EndpointConnectionError", <<>>, r)
    ELSE IF name \notin DOMAIN backend.parameters THEN Resolved("ParameterNotFound", <<>>, r)
    ELSE Resolved("", backend.parameters[name], r)

\* The client is made and asked whatever the environment says
evaluate_ssm_parameter_online(r, name) ==
    get_parameter(
        [r EXCEPT !.ssm_client = TRUE, !.ssm_requests = @ \cup {name}], name)

\* EnvReader.evaluate_ssm_parameter
evaluate_ssm_parameter(r, name) ==
    IF ~ Falsy(environ_get(OFFLINE_PARAMETER_FLAG))
    THEN Resolved("", OFFLINE_PARAMETER_VALUE, r)
    ELSE get_parameter(
            [r EXCEPT !.ssm_client = TRUE, !.ssm_requests = @ \cup {name}], name)

\* The handler chosen by the prefix of the expanded value.
postprocess_expanded(r, value) ==
    IF str_startswith(value, <<"~">>) THEN Resolved("", expanduser(value), r)
    ELSE IF str_startswith(value, KeyfilePrefix)
         THEN evaluate_clrypt_key(r, str_from(value, 9))
    ELSE IF str_startswith(value, ParameterPrefix)
         THEN evaluate_ssm_parameter(r, str_from(value, 11))
    ELSE Resolved("", value, r)

\* The value a handler returns goes through expandvars once more
postprocess_str_reexpanded(r, value) ==
    [postprocess_expanded(r, expandvars(value)) EXCEPT !.value = expandvars(@)]

\* EnvReader.postprocess_str
postprocess_str(r, value) == postprocess_expanded(r, expandvars(value))

K_base == <<"b", "a", "s", "e">>

\* A key of a yaml mapping that is the int n and not a str.
IntKey(n) == <<"int", n>>

\* isinstance(key, str)
isinstance_str(key) == ~ (Len(key) = 2 /\ key[1] = "int")

\* What an error is about: the document (by its place in
\* environment_paths), the key path, the name.
About(kind, doc, path, name) == [kind |-> kind, doc |-> doc, path |-> path, name |-> name]

Nothing == About("", 0, <<>>, <<>>)

\* What read() raises ("" when it returns) and returns, with the reader as
\* the call leaves it.
ReadResult(exc, about, env, r) == [exc |-> exc, about |-> about, env |-> env, reader |-> r]

\* The running merge: result, mode_read and what was raised so far.
Merged(exc, about, merged, mode_read) ==
    [exc |-> exc, about |-> about, result |-> merged, mode_read |-> mode_read]

\* deepmerge(result, section); a section that is no mapping has no items()
read_section(acc, section) ==
    IF acc.exc # "" THEN acc
    ELSE IF ~ IsMapping(section) THEN [acc EXCEPT !.exc = "AttributeError"]
    ELSE [acc EXCEPT !.result = deepmerge(@, section)]

\* if self.mode and self.mode in config: ...
read_mode(acc, config, mode) ==
    IF acc.exc = "" /\ ~ Falsy(mode) /\ mode[<<>>].s \in dict_keys(config)
    THEN read_section([acc EXCEPT !.mode_read = TRUE], dict_item(config, mode[<<>>].s))
    ELSE acc

\* The mode section is merged first and the base section over it
read_config_mode_first(acc, config, i, mode) ==
    IF acc.exc # "" \/ Falsy(config) THEN acc
    ELSE IF K_base \notin dict_keys(config)
         THEN [acc EXCEPT !.exc = "ValueError", !.about = About("base", i, <<>>, <<>>)]
    ELSE read_section(read_mode(acc, config, mode), dict_item(config, K_base))

\* The body of the loop over the documents, for the document at place i.
read_config(acc, config, i, mode) ==
    IF acc.exc # "" \/ Falsy(config) THEN acc
    ELSE IF K_base \notin dict_keys(config)
         THEN [acc EXCEPT !.exc = "ValueError", !.about = About("base", i, <<>>, <<>>)]
    ELSE read_mode(read_section(acc, dict_item(config, K_base)), config, mode)

\* for config_path in self.environment_paths[::-1]: from place i down to 1
RECURSIVE read_configs(_, _, _, _)
read_configs(paths, i, mode, acc) ==
    IF i = 0 THEN acc
    ELSE read_configs(paths, i - 1, mode, read_config(acc, paths[i], i, mode))

\* A mode that no document holds is let through
read_mode_checked_never(acc, mode) == acc

\* if self.mode and not mode_read: raise ValueError
read_mode_checked(acc, mode) ==
    IF acc.exc = "" /\ ~ Falsy(mode) /\ ~ acc.mode_read
    THEN [acc EXCEPT !.exc = "ValueError", !.about = About("mode", 0, <<>>, mode[<<>>].s)]
    ELSE acc

\* The types of the leaves that are kept as they are.
LeafTypes == {"float", "bool", "int", "list"}

\* The post-processing pass over the merged tree.  A dict yields its items
\* in the order the documents give them, which the tree does not record:
\* every order is taken, and the pass gives the set of the results.
RECURSIVE postprocess_items(_, _, _, _, _)

\* while to_process: mapping = to_process.pop()
postprocess_loop(tree, to_process, r) ==
    IF to_process = <<>> THEN {ReadResult("", Nothing, tree, r)}
    ELSE postprocess_items(tree,
            SubSeq(to_process, 1, Len(to_process) - 1),
            to_process[Len(to_process)],
            keys_at(tree, to_process[Len(to_process)]),
            r)

\* mapping[key] = self.postprocess_str(value)
postprocess_value(tree, to_process, at, items, path, resolved) ==
    IF resolved.exc # ""
    THEN {ReadResult(resolved.exc, About("value", 0, path, <<>>), NoneValue, resolved.reader)}
    ELSE postprocess_items([tree EXCEPT ![path] = Cell("str", resolved.value)],
            to_process, at, items, resolved.reader)

\* A key that starts with an underscore is let through
postprocess_key_underscore_allowed(key) == ~ isinstance_str(key)

\* The checks of the key: not a str, or one that starts with an underscore.
postprocess_key_refused(key) ==
    \/ ~ isinstance_str(key)
    \/ str_startswith(key, UNDERSCORE)

\* elif not isinstance(value, (float, bool, int, list))
postprocess_type_refused(ty) == ty \notin LeafTypes

\* The body of the loop over mapping.items(), for one item.
postprocess_item(tree, to_process, at, items, r, key, path) ==
    IF postprocess_key_refused(key)
    THEN {ReadResult("ValueError", About("key", 0, path, key), NoneValue, r)}
    ELSE IF tree[path].ty = "dict"
         THEN postprocess_items(tree, Append(to_process, path), at, items, r)
    ELSE IF tree[path].ty = "NoneType"
         THEN postprocess_items([tree EXCEPT ![path] = Cell("str", <<>>)],
                to_process, at, items, r)
    ELSE IF tree[path].ty = "str"
         THEN postprocess_value(tree, to_process, at, items, path,
                postprocess_str(r, tree[path].s))
    ELSE IF postprocess_type_refused(tree[path].ty)
         THEN {ReadResult("ValueError", About("type", 0, path, <<>>), NoneValue, r)}
    ELSE postprocess_items(tree, to_process, at, items, r)

postprocess_items(tree, to_process, at, items, r) ==
    IF items = {} THEN postprocess_loop(tree, to_process, r)
    ELSE UNION { postprocess_item(tree, to_process, at, items \ {key}, r, key, at \o <<key>>) :
                 key \in items }

\* What follows the merge: the error of the merge, or the pass.
read_postprocess(acc, r) ==
    IF acc.exc # "" THEN {ReadResult(acc.exc, acc.about, NoneValue, r)}
    ELSE postprocess_loop(acc.result, <<<<>>>>, r)

\* EnvReader.read(): every result the call can have.
read(r, paths) ==
    read_postprocess(
        read_mode_checked(
            read_configs(paths, Len(paths), r.mode, Merged("", Nothing, EmptyDict, FALSE)),
            r.mode),
        r)

(***************************************************************************)
(* The ^chamber/v1 directive.  The reader of this repository that handles  *)
(* it takes a getenv function, wraps resolved values in Secret and raises  *)
(* MissingEnvVarsError; it is exercised by tests/test_read.py.  The pass   *)
(* below runs over the tree that EnvReader.read returns, in which          *)
(* a ^chamber/v1 leaf is still the (expanded) directive.                   *)
(***************************************************************************)
ChamberPrefix == <<"^", "c", "h", "a", "m", "b", "e", "r", "/", "v", "1", " ">>

\* The leaf at path p of the tree is a ^chamber/v1 directive.
IsChamberLeaf(tree, p) ==
    /\ p # <<>>
    /\ tree[p].ty = "str"
    /\ str_startswith(tree[p].s, ChamberPrefix)

\* The argument of the directive at path p.
chamber_var_name(tree, p) == str_from(tree[p].s, Len(ChamberPrefix))

\* The argument has a character that is no letter, digit or underscore.
chamber_invalid(name) == \E i \in 1..Len(name) : name[i] \notin WordChars

\* The environment variable the argument maps to.
chamber_env_var(name) == str_upper(name)

\* getenv(env_var) is None or the empty string.
chamber_missing(name) ==
    \/ chamber_env_var(name) \notin DOMAIN environ
    \/ environ[chamber_env_var(name)] = <<>>

\* MissingEnvVar(yaml_key_path, chamber_var_name, env_var)
MissingEnvVar(path, name) ==
    [ yaml_key_path    |-> str_join(DOT, path),
      chamber_var_name |-> name,
      env_var          |-> chamber_env_var(name) ]

\* What the read gives with the directive handled.
ChamberResult(exc, about, env, missing) ==
    [exc |-> exc, about |-> about, env |-> env, missing |-> missing]

\* The first variable that is missing stops the read
chamber_leaf_fail_fast(tree, p, name, missing) ==
    IF chamber_invalid(name)
    THEN [exc |-> "ValueError", about |-> About("chamber", 0, p, name),
          tree |-> tree, missing |-> missing]
    ELSE IF chamber_missing(name)
    THEN [exc |-> "MissingEnvVarsError", about |-> Nothing,
          tree |-> tree, missing |-> {MissingEnvVar(p, name)}]
    ELSE [exc |-> "", about |-> Nothing,
          tree |-> [tree EXCEPT ![p] = Cell("Secret", environ[chamber_env_var(name)])],
          missing |-> missing]

\* One ^chamber/v1 leaf: an invalid argument raises, a missing variable is
\* noted, a variable that is set replaces the leaf by its Secret.
chamber_leaf(tree, p, name, missing) ==
    IF chamber_invalid(name)
    THEN [exc |-> "ValueError", about |-> About("chamber", 0, p, name),
          tree |-> tree, missing |-> missing]
    ELSE IF chamber_missing(name)
    THEN [exc |-> "", about |-> Nothing, tree |-> tree,
          missing |-> missing \cup {MissingEnvVar(p, name)}]
    ELSE [exc |-> "", about |-> Nothing,
          tree |-> [tree EXCEPT ![p] = Cell("Secret", environ[chamber_env_var(name)])],
          missing |-> missing]

\* The pass over the ^chamber/v1 leaves, in every order, and the error
\* raised once at its end when variables were missing.
RECURSIVE chamber_leaves(_, _, _)
chamber_next(leaves, done) ==
    IF done.exc # "" THEN {ChamberResult(done.exc, done.about, NoneValue, done.missing)}
    ELSE chamber_leaves(done.tree, leaves, done.missing)

chamber_leaves(tree, leaves, missing) ==
    IF leaves = {}
    THEN IF missing # {}
         THEN {ChamberResult("MissingEnvVarsError", Nothing, NoneValue, missing)}
         ELSE {ChamberResult("", Nothing, tree, {})}
    ELSE UNION { chamber_next(leaves \ {p},
                    chamber_leaf(tree, p, chamber_var_name(tree, p), missing)) :
                 p \in leaves }

\* The directive handled on what EnvReader.read gave.
chamber_read(r) ==
    IF r.exc # "" THEN {ChamberResult(r.exc, r.about, NoneValue, {})}
    ELSE chamber_leaves(r.env, {p \in DOMAIN r.env : IsChamberLeaf(r.env, p)}, {})

\* The read of the reader that knows the directive: every result it can have.
read_with_chamber(r, paths) == UNION { chamber_read(read_result) : read_result \in read(r, paths) }

(***************************************************************************)
(* repr                                                                    *)
(***************************************************************************)
\* repr of a leaf: a str in quotes, a number or bool as it is written; of a
\* list only the types of the elements are known.
repr_leaf(cell) ==
    IF cell.ty = "str" THEN <<"'">> \o cell.s \o <<"'">>
    ELSE IF cell.ty = "NoneType" THEN <<"N", "o", "n", "e">>
    ELSE IF cell.ty = "list" THEN <<"[">> \o str_join(<<",", " ">>, [i \in 1..Len(cell.s) |-> <<"<", cell.s[i], ">">>]) \o <<"]">>
    ELSE IF cell.ty = "object" THEN <<"<", "o", "b", "j", "e", "c", "t", ">">>
    ELSE cell.s

\* repr of a value: of a dict, "{key: value, ...}" with the items in the
\* order the dict yields them.
RECURSIVE repr(_)
repr_items(v, keys) ==
    [i \in 1..Len(keys) |-> <<"'">> \o keys[i] \o <<"'", ":", " ">> \o repr(dict_item(v, keys[i]))]

repr(v) ==
    IF IsMapping(v)
    THEN <<"{">> \o str_join(<<",", " ">>, repr_items(v, items_order(dict_keys(v)))) \o <<"}">>
    ELSE repr_leaf(v[<<>>])

\* f"ClrEnv[{'.'.join(self._key_path)}]={self._env}"
_repr_env(e) ==
    IF e.exc # "" THEN e
    ELSE [e EXCEPT !.val = Str(<<"C", "l", "r", "E", "n", "v", "[">> \o str_join(DOT, _key_path(e.ns)) \o <<"]", "=">> \o repr(e.val))]

\* SubClrEnv.__repr__
__repr__(rc, ns) == _repr_env(_env(rc, ns))

(***************************************************************************)
(* The inputs: keys, documents, environment variables, override calls.    *)
(***************************************************************************)
K_a == <<"a">>
K_aa == <<"a", "a">>
K_bb == <<"b", "b">>
K_c == <<"c">>
K_q == <<"q">>
K_z == <<"z">>
K_y == <<"y">>
K_yy == <<"y", "y">>
K_yyy == <<"y", "y", "y">>
K_A == <<"A">>
K__x == <<"_", "x">>

Keys == {K_a, K_aa, K_bb, K_c, K_q, K_z, K_y, K_yy, K_yyy, K_A, K__x}

\* The keys read as attributes, and those the caller navigates by.
AttrKeys == {K_a, K_aa, K_q, K_z, K_y, K__x}

HoldKeys == {K_aa, K_c, K_y, K_yy, K_z}

\* {"a": "b", "aa": {"bb": "cc"}}
DefaultEnv ==
    With(With(EmptyDict, K_a, Str(<<"b">>)),
         K_aa, With(EmptyDict, K_bb, Str(<<"c", "c">>)))

\* A document five maps deep: {"c": {"c": {"c": {"c": {"c": "f"}}}}}
NestedEnv ==
    With(EmptyDict, K_c,
        With(EmptyDict, K_c,
            With(EmptyDict, K_c,
                With(EmptyDict, K_c,
                    With(EmptyDict, K_c, Str(<<"f">>))))))

\* What reading the yaml files yields: a merged tree, or a ValueError.
Documents ==
    { [ok |-> TRUE, exc |-> "", env |-> DefaultEnv],
      [ok |-> TRUE, exc |-> "", env |-> NestedEnv],
      [ok |-> TRUE, exc |-> "", env |-> EmptyDict],
      [ok |-> FALSE, exc |-> "ValueError", env |-> NoneValue] }

CLRENV__A == CLRENV \o DUNDER \o <<"A">>
CLRENV__Z == CLRENV \o DUNDER \o <<"Z">>
CLRENV__AA == CLRENV \o DUNDER \o <<"A", "A">>
CLRENV__AA__BB == CLRENV \o DUNDER \o <<"A", "A">> \o DUNDER \o <<"B", "B">>
CLRENV__Y__YY__YYY ==
    CLRENV \o DUNDER \o <<"Y">> \o DUNDER \o <<"Y", "Y">> \o DUNDER \o <<"Y", "Y", "Y">>
CLRENV___X == CLRENV \o DUNDER \o <<"_", "X">>
CLRENV_Q == CLRENV \o <<"_", "Q">>

EnvVarNames ==
    {CLRENV__A, CLRENV__Z, CLRENV__AA, CLRENV__AA__BB, CLRENV__Y__YY__YYY, CLRENV___X, CLRENV_Q}

EnvVarValues == {<<"z">>}

V_z == Str(<<"z">>)
V_1 == Leaf("int", <<"1">>)
V_list == Leaf("list", <<>>)
V_object == Leaf("object", <<>>)

NonPrimitives == {V_list, EmptyDict, NoneValue, V_object}

K_b == <<"b">>
K_d == <<"d">>

V_3 == Leaf("int", <<"3">>)

\* A list; the text of its cell names the types of its elements.
List(types) == Leaf("list", types)

\* {"a": {"b": 1, "c": 1}}
MergeDst == With(EmptyDict, K_a, With(With(EmptyDict, K_b, V_1), K_c, V_1))

\* {"a": {"b": 3, "d": 3}}
MergeSrc == With(EmptyDict, K_a, With(With(EmptyDict, K_b, V_3), K_d, V_3))

\* {"a": {"b": 3, "c": 1, "d": 3}}
MergeExpected ==
    With(EmptyDict, K_a, With(With(With(EmptyDict, K_b, V_3), K_c, V_1), K_d, V_3))

\* The nested maps that are merged.
MergeMaps ==
    { MergeDst, MergeSrc, EmptyDict,
      With(EmptyDict, K_a, EmptyDict),
      With(EmptyDict, K_a, V_1),
      With(EmptyDict, K_a, List(<<"int">>)),
      With(With(EmptyDict, K_a, List(<<"str", "int">>)), K_z, V_z),
      With(With(EmptyDict, K_a, With(EmptyDict, K_b, With(EmptyDict, K_c, V_3))), K_z, V_1),
      With(EmptyDict, K_a, With(EmptyDict, K_b, List(<<"int">>))) }

K_foo == <<"f", "o", "o">>
K_bar == <<"b", "a", "r">>
K_test == <<"t", "e", "s", "t">>
K_notbase == <<"n", "o", "t", "b", "a", "s", "e">>

\* A yaml document with the given base section.
Base(section) == With(EmptyDict, K_base, section)

\* A yaml document with the given base section and "test" section.
BaseAndTest(section, test) == With(Base(section), K_test, test)

\* The leaf values name the document and the section they come from.
V_hb == Str(<<"h", "b">>)
V_hm == Str(<<"h", "m">>)
V_lb == Str(<<"l", "b">>)
V_lm == Str(<<"l", "m">>)

\* The documents given first, with the highest precedence.
HighDocuments ==
    { BaseAndTest(With(With(EmptyDict, K_foo, V_hb), K_aa, With(EmptyDict, K_bb, V_hb)),
                  With(EmptyDict, K_foo, V_hm)),
      Base(With(EmptyDict, K_aa, With(EmptyDict, K_bb, V_hb))),
      BaseAndTest(EmptyDict, With(EmptyDict, K_aa, With(EmptyDict, K_bb, V_hm))),
      NoneValue,
      With(EmptyDict, K_notbase, With(EmptyDict, K_foo, V_hb)) }

\* The documents given second: base and mode sections.
LowDocuments ==
    { BaseAndTest(With(With(EmptyDict, K_foo, V_lb),
                       K_aa, With(With(EmptyDict, K_bb, V_lb), K_c, V_lb)),
                  With(With(EmptyDict, K_foo, V_lm),
                       K_aa, With(With(EmptyDict, K_bb, V_lm), K_c, V_lm))),
      Base(With(EmptyDict, K_foo, V_lb)),
      NoneValue,
      With(EmptyDict, K_test, With(EmptyDict, K_foo, V_lm)),
      Base(NoneValue) }

ParameterA == <<"^", "p", "a", "r", "a", "m", "e", "t", "e", "r", " ", "a", "a", "a">>
ParameterB == <<"^", "p", "a", "r", "a", "m", "e", "t", "e", "r", " ", "b", "b", "b">>
KeyfileA == <<"^", "k", "e", "y", "f", "i", "l", "e", " ", "a", "a", "a">>
KeyfileB == <<"^", "k", "e", "y", "f", "i", "l", "e", " ", "z", "z", "z">>

\* Documents that differ in the leaves and keys of their base section.
LeafDocuments ==
    { Base(With(With(EmptyDict, K_foo, NoneValue), K_aa, With(EmptyDict, K_bb, NoneValue))),
      Base(With(EmptyDict, K_foo, List(<<"int", "str">>))),
      Base(With(EmptyDict, K_foo, List(<<"int", "dict">>))),
      Base(With(EmptyDict, K_aa, With(EmptyDict, K_bb, List(<<"NoneType">>)))),
      Base(With(EmptyDict, K_foo, List(<<"list">>))),
      Base(With(With(EmptyDict, K_foo, V_lb), K_aa, With(EmptyDict, K_bb, Leaf("object", <<>>)))),
      Base(With(With(EmptyDict, K_foo, V_lb), K_aa, With(EmptyDict, IntKey("2"), V_lb))),
      Base(With(With(EmptyDict, K_foo, V_lb), K_aa, With(EmptyDict, K__x, V_lb))),
      Base(With(EmptyDict, K__x, With(EmptyDict, K_bb, V_lb))),
      Base(With(With(With(EmptyDict, K_foo, V_1), K_bar, Leaf("bool", <<"T", "r", "u", "e">>)),
                K_aa, With(EmptyDict, K_bb, Leaf("float", <<"1", ".", "5">>)))),
      Base(With(With(EmptyDict, K_foo, Str(ParameterA)),
                K_aa, With(EmptyDict, K_bb, Str(ParameterB)))),
      Base(With(With(EmptyDict, K_foo, Str(KeyfileA)), K_bar, Str(KeyfileB))),
      Base(With(With(EmptyDict, K_foo, Str(<<"$", "Z", "/", "x">>)), K_bar, Str(<<"~", "/", "x">>))),
      Base(With(With(EmptyDict, K_foo, Str(<<"$", "{", "Z", "}">>)), K_bar, Str(<<"~">>))) }

\* The lists of documents a root is built from, highest precedence first.
EnvironmentPaths ==
    {<<d>> : d \in HighDocuments \cup LowDocuments \cup LeafDocuments}
    \cup {<<h, l>> : h \in HighDocuments, l \in LowDocuments \cup LeafDocuments}

\* The process environments the documents are read in.
ReadEnvirons ==
    { [n \in {} |-> <<>>],
      (CLRENV_MODE :> K_test),
      (CLRENV_MODE :> <<>>),
      (OFFLINE_PARAMETER_FLAG :> <<"1">>),
      (OFFLINE_PARAMETER_FLAG :> <<>>),
      (CLRENV_MODE :> K_test) @@ (OFFLINE_PARAMETER_FLAG :> <<"1">>) @@ (K_z :> K_y),
      (HOME :> <<"/", "h", "/">>) @@ (<<"Z">> :> K_z),
      (HOME :> <<"$", "Z">>) @@ (<<"Z">> :> KeyfileA) }

\* The secret backends and the user database.
Backends ==
    { [ online |-> TRUE, parameters |-> (<<"a", "a", "a">> :> <<"b", "b", "b">>) @@ (<<"b", "b", "b">> :> <<"c", "c", "c">>),
        keyfile |-> (<<"a", "a", "a">> :> <<"b", "b", "b">>), pw_dir |-> <<"/", "r", "o", "o", "t">>, users |-> [u \in {} |-> <<>>] ],
      [ online |-> TRUE, parameters |-> (<<"a", "a", "a">> :> <<"^", "k", "e", "y", "f", "i", "l", "e", " ", "a", "a", "a">>),
        keyfile |-> (<<"a", "a", "a">> :> <<"$", "Z">>), pw_dir |-> <<"/", "r", "o", "o", "t">>, users |-> [u \in {} |-> <<>>] ],
      [ online |-> FALSE, parameters |-> [u \in {} |-> <<>>],
        keyfile |-> [u \in {} |-> <<>>], pw_dir |-> <<"/", "r", "o", "o", "t">>, users |-> [u \in {} |-> <<>>] ] }

\* The keyfile and the parameter store of the tests: "aaa" is "bbb".
TestBackend ==
    [ online |-> TRUE, parameters |-> (<<"a", "a", "a">> :> <<"b", "b", "b">>) @@ (<<"b", "b", "b">> :> <<"c", "c", "c">>),
      keyfile |-> (<<"a", "a", "a">> :> <<"b", "b", "b">>), pw_dir |-> <<"/", "r", "o", "o", "t">>, users |-> [u \in {} |-> <<>>] ]

\* The lists of documents a root is built from and that its files are
\* rewritten to.
RootPaths ==
    { <<Base(EmptyDict)>>,
      <<Base(DefaultEnv)>>,
      <<Base(With(With(EmptyDict, K_a, V_z), K_foo, Str(KeyfileA)))>>,
      <<Base(With(EmptyDict, K_aa, With(EmptyDict, K_bb, Str(ParameterA))))>>,
      <<With(EmptyDict, K_notbase, DefaultEnv)>>,
      <<Base(With(With(EmptyDict, K_a, V_z), K_aa, With(EmptyDict, K__x, V_z)))>>,
      <<Base(With(With(EmptyDict, K_a, V_z), K_aa, With(EmptyDict, K_bb, Leaf("object", <<>>))))>>,
      <<Base(With(With(EmptyDict, K_a, V_z), K_foo, Str(ParameterPrefix \o <<"z", "z", "z">>)))>> }

\* The process environments a root is built in: no mode, and the mode
\* "test", for which none of the files has a section.
RootEnvirons == { [n \in {} |-> <<>>], (CLRENV_MODE :> K_test) }

RootKeys == {K_a, K_aa, K_bb, K_foo, K_z}

K_ns == <<"n", "s">>
K_quux == <<"q", "u", "u", "x">>
K_nonexistent1 == <<"n", "o", "n", "e", "x", "i", "s", "t", "e", "n", "t", "1">>
K_empty == <<"e", "m", "p", "t", "y">>
K_yep == <<"y", "e", "p">>

\* "^chamber/v1 <name>"
Chamber(name) == Str(ChamberPrefix \o name)

N_nicepathokaaa == <<"n", "i", "c", "e", "p", "a", "t", "h", "o", "k", "a", "a", "a">>
N_nice_with_underscore_ccc == <<"n", "i", "c", "e", "_", "w", "i", "t", "h", "_", "u", "n", "d", "e", "r", "s", "c", "o", "r", "e", "_", "c", "c", "c">>
N_nonexistent_ddd == <<"n", "o", "n", "e", "x", "i", "s", "t", "e", "n", "t", "_", "d", "d", "d">>
N_empty_eee == <<"e", "m", "p", "t", "y", "_", "e", "e", "e">>

\* The arguments with a character that is not allowed.
BadNames == { <<"d", "o", "t", ".", "a", "a", "a">>, <<"d", "a", "s", "h", "-", "b", "b", "b">>, <<"f", "o", "o", "'", "b", "a", "r">>, <<"b", "a", "r", "\"", "f", "o", "o">> }

\* {"foo": "^chamber/v1 nicepathokaaa", "ns": {"quux": "^chamber/v1 nice_with_underscore_ccc"}}
ChamberGolden ==
    With(With(EmptyDict, K_foo, Chamber(N_nicepathokaaa)),
         K_ns, With(EmptyDict, K_quux, Chamber(N_nice_with_underscore_ccc)))

\* The documents with ^chamber/v1 leaves.
ChamberDocuments ==
    { Base(ChamberGolden),
      Base(With(With(ChamberGolden, K_nonexistent1, Chamber(N_nonexistent_ddd)),
                K_empty, Chamber(N_empty_eee))),
      Base(With(With(With(EmptyDict, K_empty, Chamber(N_empty_eee)),
                     K_nonexistent1, Chamber(N_nonexistent_ddd)),
                K_yep, With(EmptyDict, K_foo, Chamber(<<"d", "o", "t", ".", "a", "a", "a">>)))),
      Base(With(EmptyDict, K_foo, V_lb)) }
    \cup { Base(With(EmptyDict, K_yep, With(EmptyDict, K_foo, Chamber(name)))) : name \in BadNames }

ChamberPaths ==
    {<<d>> : d \in ChamberDocuments}
    \cup {<<Base(With(EmptyDict, K_empty, Chamber(N_empty_eee))), d>> : d \in ChamberDocuments}

\* The process environments of the chamber tests, and some more.
ChamberEnvirons ==
    { [n \in {} |-> <<>>],
      (<<"N", "I", "C", "E", "P", "A", "T", "H", "O", "K", "A", "A", "A">> :> <<"1">>) @@ (<<"N", "I", "C", "E", "_", "W", "I", "T", "H", "_", "U", "N", "D", "E", "R", "S", "C", "O", "R", "E", "_", "C", "C", "C">> :> <<"2">>),
      (<<"N", "I", "C", "E", "P", "A", "T", "H", "O", "K", "A", "A", "A">> :> <<"1">>) @@ (<<"N", "I", "C", "E", "_", "W", "I", "T", "H", "_", "U", "N", "D", "E", "R", "S", "C", "O", "R", "E", "_", "C", "C", "C">> :> <<"3">>)
            @@ (<<"E", "M", "P", "T", "Y", "_", "E", "E", "E">> :> <<>>),
      (<<"N", "I", "C", "E", "P", "A", "T", "H", "O", "K", "A", "A", "A">> :> <<"1">>) @@ (<<"N", "I", "C", "E", "_", "W", "I", "T", "H", "_", "U", "N", "D", "E", "R", "S", "C", "O", "R", "E", "_", "C", "C", "C">> :> <<"2">>)
            @@ (<<"E", "M", "P", "T", "Y", "_", "E", "E", "E">> :> <<"5">>) @@ (<<"N", "O", "N", "E", "X", "I", "S", "T", "E", "N", "T", "_", "D", "D", "D">> :> <<"4">>),
      (N_nicepathokaaa :> <<"1">>) @@ (N_nice_with_underscore_ccc :> <<"2">>),
      (<<"N", "I", "C", "E", "P", "A", "T", "H", "O", "K", "A", "A", "A">> :> <<>>) @@ (<<"N", "I", "C", "E", "_", "W", "I", "T", "H", "_", "U", "N", "D", "E", "R", "S", "C", "O", "R", "E", "_", "C", "C", "C">> :> <<"2">>),
      (<<"E", "M", "P", "T", "Y", "_", "E", "E", "E">> :> <<"5">>),
      (<<"N", "O", "N", "E", "X", "I", "S", "T", "E", "N", "T", "_", "D", "D", "D">> :> <<"4">>) @@ (<<"D", "O", "T", ".", "A", "A", "A">> :> <<"6">>) }

\* The calls of root.set_runtime_override(key_path, value).
OverrideCalls ==
    ( {KeyPathStr(K_a), KeyPathStr(K_aa \o DOT \o K_bb), KeyPathSeq(<<K_aa, K_bb>>)}
      \X {V_z, V_1} )
    \cup ( { KeyPathStr(K_z), KeyPathStr(<<>>), KeyPathSeq(<<>>),
             KeyPathStr(K_q), KeyPathStr(K_aa \o DOT \o K_q), KeyPathSeq(<<K_q, K_a>>),
             KeyPathStr(K_a \o DOT \o K_z), KeyPathStr(K_aa \o DOT \o DOT \o K_bb) }
           \X {V_z} )
    \cup ( {KeyPathStr(K_a)} \X NonPrimitives )
    \cup ( {KeyPathSeq(<<K_aa, K_bb>>), KeyPathStr(K_q)} \X {V_list} )

\* The calls of node[key] = value and node.key = value.
Assignments ==
    ({K_a, K_bb, K_z, K_q, K__x} \X {V_z}) \cup ({K_bb} \X {V_1, V_list, NoneValue})

\* The calls of del node[key].
Deletions == {K_a, K_bb, K_z, K__x}

(***************************************************************************)
(* The state machine                                                       *)
(***************************************************************************)
OverrideEntries(overrides) ==
    UNION { {<<p, k>> : k \in DOMAIN overrides[p]} : p \in DOMAIN overrides }

\* read() has not been called.
Unread == [exc |-> "unread", about |-> Nothing, env |-> NoneValue]

\* No document is being read.
NoRead ==
    /\ environment_paths = <<>>
    /\ backend = [ online |-> FALSE, parameters |-> [u \in {} |-> <<>>],
                   keyfile |-> [u \in {} |-> <<>>], pw_dir |-> <<>>,
                   users |-> [u \in {} |-> <<>>] ]
    /\ reader = [ mode |-> NoneValue, ssm_client |-> FALSE, clrypt_keyfile |-> FALSE,
                  clrypt_loads |-> 0, ssm_requests |-> {} ]
    /\ result = Unread

\* No deepmerge is under way.
NoMerge ==
    /\ dst = EmptyDict
    /\ src = EmptyDict
    /\ dst_before = EmptyDict
    /\ merges = 0
    /\ objects = <<>>
    /\ sources = <<>>
    /\ merged_from = <<>>

Init ==
    /\ environ = [n \in {} |-> <<>>]
    /\ documents \in Documents
    /\ runtime_overrides = [p \in {} |-> <<>>]
    /\ root_cached_env = NoneValue
    /\ held = <<>>
    /\ NoMerge
    /\ NoRead

\* A call on the held node that reads: it leaves the caches behind.
Read(r) ==
    /\ root_cached_env' = r.rc
    /\ held' = r.ns
    /\ UNCHANGED <<environ, documents, runtime_overrides>>
    /\ UNCHANGED merge_vars
    /\ UNCHANGED read_vars

\* A call that writes: it leaves the root's cache and the store behind.
Write(r) ==
    /\ Cardinality(OverrideEntries(r.overrides)) <= MaxOverrides
    /\ root_cached_env' = r.rc
    /\ runtime_overrides' = r.overrides
    /\ UNCHANGED <<environ, documents, held>>
    /\ UNCHANGED merge_vars
    /\ UNCHANGED read_vars

\* The caller goes on with the SubClrEnv that node[key] returned.
Held(key, r) ==
    /\ r.exc = ""
    /\ r.node
    /\ root_cached_env' = r.rc
    /\ held' = Append(r.ns, SubClrEnv(key))
    /\ UNCHANGED <<environ, documents, runtime_overrides>>
    /\ UNCHANGED merge_vars
    /\ UNCHANGED read_vars

\* value = node[key]
GetItem(key) == Read(__getitem__(root_cached_env, held, key))

\* value = node.key
GetAttr(key) == Read(__getattr__(root_cached_env, held, key))

\* node = node[key], when that is a SubClrEnv
Hold(key) == Held(key, __getitem__(root_cached_env, held, key))

\* node = root
Release ==
    /\ held # <<>>
    /\ held' = <<>>
    /\ UNCHANGED <<environ, documents, runtime_overrides, root_cached_env>>
    /\ UNCHANGED merge_vars
    /\ UNCHANGED read_vars

\* list(node), len(node)
Iter == Read(_sub_keys(root_cached_env, held))

\* root.set_runtime_override(key_path, value)
SetRuntimeOverride(key_path, value) ==
    Write(set_runtime_override(root_cached_env, key_path, value))

\* node[key] = value
SetItem(key, value) == Write(__setitem__(root_cached_env, held, key, value))

\* node.key = value
SetAttr(key, value) == Write(__setattr__(root_cached_env, held, key, value))

\* del node[key]
DelItem(key) == Write(__delitem__(root_cached_env, held, key))

\* root.clear_runtime_overrides()
ClearRuntimeOverrides == Write(clear_runtime_overrides(root_cached_env))

\* os.environ[name] = value, by the process or its tests (monkeypatch.setenv)
SetEnv(name, value) ==
    /\ Cardinality(DOMAIN environ \cup {name}) <= MaxEnvVars
    /\ environ' = (name :> value) @@ environ
    /\ UNCHANGED <<documents, runtime_overrides, root_cached_env, held>>
    /\ UNCHANGED merge_vars
    /\ UNCHANGED read_vars

\* del os.environ[name]
DelEnv(name) ==
    /\ name \in DOMAIN environ
    /\ environ' = [n \in DOMAIN environ \ {name} |-> environ[n]]
    /\ UNCHANGED <<documents, runtime_overrides, root_cached_env, held>>
    /\ UNCHANGED merge_vars
    /\ UNCHANGED read_vars

Next ==
    \/ \E key \in Keys : GetItem(key)
    \/ \E key \in AttrKeys : GetAttr(key)
    \/ \E key \in HoldKeys : Hold(key)
    \/ Release
    \/ Iter
    \/ \E call \in OverrideCalls : SetRuntimeOverride(call[1], call[2])
    \/ \E call \in Assignments : SetItem(call[1], call[2])
    \/ \E call \in Assignments : SetAttr(call[1], call[2])
    \/ \E key \in Deletions : DelItem(key)
    \/ ClearRuntimeOverrides
    \/ \E name \in EnvVarNames, value \in EnvVarValues : SetEnv(name, value)
    \/ \E name \in EnvVarNames : DelEnv(name)

Spec == Init /\ [][Next]_vars

(***************************************************************************)
(* deepmerge on its own: dst and src are drawn from the nested maps and    *)
(* src is merged into dst, again and again.                                *)
(***************************************************************************)
MaxMerges == 2

\* No root has been built and nothing is in the environment.
NoView ==
    /\ environ = [n \in {} |-> <<>>]
    /\ documents = [ok |-> TRUE, exc |-> "", env |-> EmptyDict]
    /\ runtime_overrides = [p \in {} |-> <<>>]
    /\ root_cached_env = NoneValue
    /\ held = <<>>

MergeInit ==
    /\ NoView
    /\ dst \in MergeMaps
    /\ src \in MergeMaps
    /\ dst_before = dst
    /\ merges = 0
    /\ objects = <<>>
    /\ sources = <<>>
    /\ merged_from = <<>>
    /\ NoRead

\* deepmerge(dst, src)
Merge ==
    /\ merges < MaxMerges
    /\ dst' = deepmerge(dst, src)
    /\ merges' = merges + 1
    /\ UNCHANGED <<src, dst_before, objects, sources, merged_from>>
    /\ UNCHANGED view_vars
    /\ UNCHANGED read_vars

(***************************************************************************)
(* deepmerge on dict objects: several sources are merged, one after the    *)
(* other, into one dst, as EnvReader.read merges the sections of the       *)
(* documents into result.                                                  *)
(***************************************************************************)
MaxSources == 3

\* The maps the sources are built as.
SourceMaps ==
    { MergeSrc,
      With(EmptyDict, K_a, EmptyDict),
      With(EmptyDict, K_a, V_1),
      With(EmptyDict, K_a, With(EmptyDict, K_d, V_1)),
      With(With(EmptyDict, K_a, With(EmptyDict, K_b, With(EmptyDict, K_c, V_3))), K_z, V_1),
      With(EmptyDict, K_a, With(EmptyDict, K_b, With(EmptyDict, K_d, V_1))) }

\* dst is a dict of its own, and so is every source: no two of them share
\* a dict object when the first merge is made.
ObjectsInit ==
    /\ NoView
    /\ NoRead
    /\ dst = EmptyDict /\ src = EmptyDict /\ dst_before = EmptyDict /\ merges = 0
    /\ sources \in [1..2 -> SourceMaps]
    /\ \E d \in {EmptyDict, MergeDst} :
            objects = allocate(0, d) @@ allocate(1, sources[1]) @@ allocate(2, sources[2])
    /\ merged_from = <<>>

\* deepmerge(dst, sources[i])
ObjectsMerge ==
    /\ Len(merged_from) < MaxSources
    /\ \E i \in DOMAIN sources :
        /\ objects' \in deepmerge_objects(objects, ObjectId(0, <<>>), ObjectId(i, <<>>))
        /\ merged_from' = Append(merged_from, i)
    /\ UNCHANGED <<dst, src, dst_before, merges, sources>>
    /\ UNCHANGED view_vars
    /\ UNCHANGED read_vars

ObjectsNext == ObjectsMerge

ObjectsSpec == ObjectsInit /\ [][ObjectsNext]_vars

MergeNext == Merge

MergeSpec == MergeInit /\ [][MergeNext]_vars

(***************************************************************************)
(* EnvReader on its own: a reader is made in some process environment for  *)
(* some documents, and read() is called on it.                             *)
(***************************************************************************)
ReadInit ==
    /\ environ \in ReadEnvirons
    /\ documents = [ok |-> TRUE, exc |-> "", env |-> EmptyDict]
    /\ runtime_overrides = [p \in {} |-> <<>>]
    /\ root_cached_env = NoneValue
    /\ held = <<>>
    /\ NoMerge
    /\ environment_paths \in EnvironmentPaths
    /\ backend \in Backends
    /\ reader = EnvReader
    /\ result = Unread

\* EnvReader.read()
EnvReaderRead ==
    /\ result = Unread
    /\ \E r \in read(reader, environment_paths) :
        /\ result' = [exc |-> r.exc, about |-> r.about, env |-> r.env]
        /\ reader' = r.reader
    /\ UNCHANGED <<environment_paths, backend>>
    /\ UNCHANGED view_vars
    /\ UNCHANGED merge_vars

ReadNext == EnvReaderRead

ReadSpec == ReadInit /\ [][ReadNext]_vars

(***************************************************************************)
(* A root over documents that EnvReader reads: the root is built for some  *)
(* files, its nodes are read, shown and overridden, and the files are      *)
(* rewritten while the process runs.                                       *)
(***************************************************************************)
\* What EnvReader(paths).read() yields for the files as they are.
ReadOf(paths) ==
    {[ok |-> r.exc = "", exc |-> r.exc, env |-> r.env] : r \in read(EnvReader, paths)}

RootInit ==
    /\ environ \in RootEnvirons
    /\ environment_paths \in RootPaths
    /\ backend = TestBackend
    /\ reader = EnvReader
    /\ result = Unread
    /\ documents \in ReadOf(environment_paths)
    /\ runtime_overrides = [p \in {} |-> <<>>]
    /\ root_cached_env = NoneValue
    /\ held = <<>>
    /\ NoMerge

\* repr(node)
Repr == Read(__repr__(root_cached_env, held))

\* The files are rewritten on disk.
Rewrite(paths) ==
    /\ environment_paths' = paths
    /\ documents' \in ReadOf(paths)
    /\ UNCHANGED <<environ, runtime_overrides, root_cached_env, held>>
    /\ UNCHANGED <<backend, reader, result>>
    /\ UNCHANGED merge_vars

RootNext ==
    \/ \E key \in RootKeys : GetItem(key)
    \/ \E key \in RootKeys : GetAttr(key)
    \/ \E key \in RootKeys : Hold(key)
    \/ Release
    \/ Iter
    \/ Repr
    \/ \E key \in RootKeys : SetItem(key, V_1)
    \/ \E key \in RootKeys : DelItem(key)
    \/ ClearRuntimeOverrides
    \/ \E paths \in RootPaths : Rewrite(paths)

RootSpec == RootInit /\ [][RootNext]_vars

(***************************************************************************)
(* The reader that handles ^chamber/v1, on its own.                        *)
(***************************************************************************)
ChamberInit ==
    /\ environ \in ChamberEnvirons
    /\ documents = [ok |-> TRUE, exc |-> "", env |-> EmptyDict]
    /\ runtime_overrides = [p \in {} |-> <<>>]
    /\ root_cached_env = NoneValue
    /\ held = <<>>
    /\ NoMerge
    /\ environment_paths \in ChamberPaths
    /\ backend = TestBackend
    /\ reader = EnvReader
    /\ result = Unread

\* EnvReader(paths, getenv).read()
ChamberRead ==
    /\ result = Unread
    /\ result' \in read_with_chamber(reader, environment_paths)
    /\ UNCHANGED <<environment_paths, backend, reader>>
    /\ UNCHANGED view_vars
    /\ UNCHANGED merge_vars

ChamberNext == ChamberRead

ChamberSpec == ChamberInit /\ [][ChamberNext]_vars

(***************************************************************************)
(* What the three sources hold for a key path, read off the store, the     *)
(* process environment and the documents directly.                         *)
(***************************************************************************)
\* CLRENV__<SEG1>__...__<KEY>, upper-cased
RECURSIVE EnvVarName(_)
EnvVarName(path) ==
    IF path = <<>> THEN CLRENV
    ELSE EnvVarName(SubSeq(path, 1, Len(path) - 1)) \o DUNDER \o str_upper(path[Len(path)])

HasOverride(path, key) ==
    /\ path \in DOMAIN runtime_overrides
    /\ key \in DOMAIN runtime_overrides[path]

HasEnvVar(path) == EnvVarName(path) \in DOMAIN environ

\* The merged document tree holds something at path.
InDocuments(path) == documents.ok /\ path \in DOMAIN documents.env

\* What the merged document tree holds at path.
DocumentValue(path) ==
    [q \in {SubSeq(d, Len(path) + 1, Len(d)) :
                d \in {d \in DOMAIN documents.env :
                          Len(d) >= Len(path) /\ SubSeq(d, 1, Len(path)) = path}}
        |-> documents.env[path \o q]]

\* The read that left r behind returned value v: a child node for a map.
ReadIs(r, v) ==
    /\ r.exc = ""
    /\ IF IsMapping(v) THEN r.node ELSE ~r.node /\ r.val = v

HeldPath == _key_path(held)

PublicKeys == {key \in Keys : ~str_startswith(key, UNDERSCORE)}

\* The key path reads as a child node: it has no override and no variable of
\* its own, and it is a map of the documents or, unknown to them, the prefix
\* of the name of a variable.
IsNode(path) ==
    /\ documents.ok
    /\ ~HasOverride(SubSeq(path, 1, Len(path) - 1), path[Len(path)])
    /\ ~HasEnvVar(path)
    /\ IF InDocuments(path)
       THEN documents.env[path].ty = "dict"
       ELSE \E n \in DOMAIN environ : str_startswith(n, EnvVarName(path) \o DUNDER)

\* Every segment of the key path before the last reads as a child node.
ParentsAreNodes(path) ==
    \A i \in 1..(Len(path) - 1) : IsNode(SubSeq(path, 1, i))

\* The key paths and values that overrides are tried with.
KeyPaths ==
    { <<K_a>>, <<K_aa, K_bb>>, <<K_z>>, <<K_q>>, <<K_aa, K_q>>, <<K_q, K_a>>,
      <<K_a, K_z>>, <<K_aa, <<>>, K_bb>> }

OverrideValues == {V_z, V_1}

\* The store with value stored for the key path, every other entry as it is.
StoreWith(path, value) ==
    LET parents == SubSeq(path, 1, Len(path) - 1)
        last == path[Len(path)]
    IN  [p \in DOMAIN runtime_overrides \cup {parents} |->
            [k \in (IF p \in DOMAIN runtime_overrides
                    THEN DOMAIN runtime_overrides[p] ELSE {})
                   \cup (IF p = parents THEN {last} ELSE {}) |->
                IF p = parents /\ k = last THEN value ELSE runtime_overrides[p][k]]]

\* The read that left r behind returned what the key path has without an
\* override: the value of its variable, else what the documents hold, else a
\* child node when a variable's name goes on below it, else not found.
ReadIsUnoverridden(r, path) ==
    IF HasEnvVar(path) THEN ReadIs(r, Str(environ[EnvVarName(path)]))
    ELSE IF ~documents.ok THEN r.exc = "ValueError"
    ELSE IF InDocuments(path) THEN ReadIs(r, DocumentValue(path))
    ELSE IF \E n \in DOMAIN environ : str_startswith(n, EnvVarName(path) \o DUNDER)
    THEN ReadIs(r, EmptyDict)
    ELSE r.exc = "KeyError"

\* A variable's name goes on below the key path: CLRENV__<PATH>__...
HasEnvVarBelow(path) ==
    \E n \in DOMAIN environ : str_startswith(n, EnvVarName(path) \o DUNDER)

\* Some source defines the key path: an override, a variable, the documents,
\* or a variable further down.
KeyExists(path) ==
    \/ HasOverride(SubSeq(path, 1, Len(path) - 1), path[Len(path)])
    \/ HasEnvVar(path)
    \/ InDocuments(path)
    \/ HasEnvVarBelow(path)

\* Every segment of the key path is a key that exists.
PathExists(path) ==
    \A i \in 1..Len(path) : KeyExists(SubSeq(path, 1, i))

\* The call that left r behind failed and stored nothing.
Refused(r) == r.exc # "" /\ r.overrides = runtime_overrides

(***************************************************************************)
(* C1                                                                      *)
(***************************************************************************)
\* C1: at every node, a read of a key that does not start with _ returns the
\* runtime override stored for the node's key path and the key; without one,
\* the current value of the variable CLRENV__<SEG1>__...__<KEY>; without
\* that, what the merged document tree holds, as a child node when that is a
\* map.  Attribute reads return what item reads return, and c.c.c.c.c over
\* the document that is five maps deep is its leaf.
ReadPriority ==
    /\ \A key \in PublicKeys :
          LET r == __getitem__(root_cached_env, held, key)
          IN  IF HasOverride(HeldPath, key)
              THEN ReadIs(r, runtime_overrides[HeldPath][key])
              ELSE IF HasEnvVar(HeldPath \o <<key>>)
              THEN ReadIs(r, Str(environ[EnvVarName(HeldPath \o <<key>>)]))
              ELSE InDocuments(HeldPath \o <<key>>)
                   => ReadIs(r, DocumentValue(HeldPath \o <<key>>))
    /\ \A key \in AttrKeys \cap PublicKeys :
          LET r == __getitem__(root_cached_env, held, key)
          IN  r.exc = "" => __getattr__(root_cached_env, held, key) = r
    /\ ( /\ documents.env = NestedEnv
         /\ runtime_overrides = <<>>
         /\ environ = <<>> )
       => ReadIs(_navigate(root_cached_env, <<>>, <<K_c, K_c, K_c, K_c, K_c>>),
                 Str(<<"f">>))

\* C1 witness: the key a has an override, a variable and a document value,
\* and the read at the root returns the override.
ReadPriorityWitness ==
    /\ held = <<>>
    /\ HasOverride(<<>>, K_a)
    /\ HasEnvVar(<<K_a>>)
    /\ InDocuments(<<K_a>>)
    /\ runtime_overrides[<<>>][K_a] = V_1
    /\ __getitem__(root_cached_env, held, K_a).val = V_1

(***************************************************************************)
(* C2                                                                      *)
(***************************************************************************)
\* C2, as stated: as long as an override is stored for a key path, every
\* read of that key path from the root returns the override value.
OverrideIsRead ==
    \A entry \in OverrideEntries(runtime_overrides) :
        ReadIs(_navigate(root_cached_env, <<>>, entry[1] \o <<entry[2]>>),
               runtime_overrides[entry[1]][entry[2]])

\* C2, amended: a successful set_runtime_override with a dotted string, with
\* a sequence, and an item or attribute assignment at the node of the parent
\* path all store the same entry (parent path, last key) -> value, replacing
\* the one stored before; as long as an entry is stored, the read of its key
\* at the node of its parent path returns its value, and so does the read
\* that navigates the key path from the root provided every segment before
\* the last still reads as a child node.
OverrideIsReadAtNode ==
    /\ \A path \in KeyPaths, value \in OverrideValues :
          LET by_seq == set_runtime_override(root_cached_env, KeyPathSeq(path), value)
              by_str == set_runtime_override(root_cached_env,
                                             KeyPathStr(str_join(DOT, path)), value)
          IN  /\ by_str = by_seq
              /\ by_seq.exc = "" => by_seq.overrides = StoreWith(path, value)
    /\ \A call \in Assignments :
          LET by_item == __setitem__(root_cached_env, held, call[1], call[2])
              by_attr == __setattr__(root_cached_env, held, call[1], call[2])
          IN  /\ by_item = set_runtime_override(root_cached_env,
                                KeyPathSeq(HeldPath \o <<call[1]>>), call[2])
              /\ call[1] \in PublicKeys => by_attr = by_item
              /\ by_item.exc = ""
                 => by_item.overrides = StoreWith(HeldPath \o <<call[1]>>, call[2])
    /\ \A entry \in OverrideEntries(runtime_overrides) :
          /\ entry[1] = HeldPath
             => ReadIs(__getitem__(root_cached_env, held, entry[2]),
                       runtime_overrides[entry[1]][entry[2]])
          /\ ParentsAreNodes(entry[1] \o <<entry[2]>>)
             => ReadIs(_navigate(root_cached_env, <<>>, entry[1] \o <<entry[2]>>),
                       runtime_overrides[entry[1]][entry[2]])

\* C2 witness: aa.bb is overridden, and the node aa that the caller holds
\* and the navigation from the root both read the override.
OverrideIsReadAtNodeWitness ==
    /\ HeldPath = <<K_aa>>
    /\ HasOverride(<<K_aa>>, K_bb)
    /\ InDocuments(<<K_aa, K_bb>>)
    /\ ParentsAreNodes(<<K_aa, K_bb>>)
    /\ __getitem__(root_cached_env, held, K_bb).val = runtime_overrides[<<K_aa>>][K_bb]
    /\ _navigate(root_cached_env, <<>>, <<K_aa, K_bb>>).val = runtime_overrides[<<K_aa>>][K_bb]

(***************************************************************************)
(* C3                                                                      *)
(***************************************************************************)
\* C3: del node[k] at the node with key path P fails with KeyError and
\* changes nothing when no override is stored for (P, k), also when the
\* documents define P.k; otherwise it removes the entry (P, k) and no other
\* and leaves the cached document tree alone.  Whenever no override is stored
\* for (P, k), the read of k at the node resolves from the variable or the
\* documents.
DeleteRemovesOverride ==
    \A key \in Keys :
        LET r == __delitem__(root_cached_env, held, key)
        IN  /\ r.rc = root_cached_env
            /\ IF HasOverride(HeldPath, key)
               THEN /\ r.exc = ""
                    /\ OverrideEntries(r.overrides)
                         = OverrideEntries(runtime_overrides) \ {<<HeldPath, key>>}
                    /\ \A e \in OverrideEntries(r.overrides) :
                          r.overrides[e[1]][e[2]] = runtime_overrides[e[1]][e[2]]
               ELSE /\ r.exc = "KeyError"
                    /\ r.overrides = runtime_overrides
                    /\ key \in PublicKeys
                       => ReadIsUnoverridden(__getitem__(root_cached_env, held, key),
                                             HeldPath \o <<key>>)

\* C3 witness: the override of aa.bb was deleted at the node aa (the store
\* keeps the emptied map of the key path), another override is still stored,
\* bb reads as the documents have it and a second deletion fails.
DeleteRemovesOverrideWitness ==
    /\ HeldPath = <<K_aa>>
    /\ <<K_aa>> \in DOMAIN runtime_overrides
    /\ DOMAIN runtime_overrides[<<K_aa>>] = {}
    /\ HasOverride(<<>>, K_a)
    /\ InDocuments(<<K_aa, K_bb>>)
    /\ __getitem__(root_cached_env, held, K_bb).val = Str(<<"c", "c">>)
    /\ __delitem__(root_cached_env, held, K_bb).exc = "KeyError"

(***************************************************************************)
(* C4                                                                      *)
(***************************************************************************)
\* C4: root.clear_runtime_overrides() leaves the store empty, for every key
\* path, whatever it held; and whenever the store is empty every read at the
\* node the caller holds returns what the key has without an override: the
\* value of its variable, else what the documents hold.
ClearRestores ==
    /\ clear_runtime_overrides(root_cached_env).exc = ""
    /\ clear_runtime_overrides(root_cached_env).rc = root_cached_env
    /\ DOMAIN clear_runtime_overrides(root_cached_env).overrides = {}
    /\ OverrideEntries(runtime_overrides) = {}
       => \A key \in PublicKeys :
            ReadIsUnoverridden(__getitem__(root_cached_env, held, key),
                               HeldPath \o <<key>>)

\* C4 witness: overrides are stored at the root and below it, the one below
\* shadowing a variable; the caller holds the node below, and clearing
\* leaves nothing of the store.
ClearRestoresWitness ==
    /\ HeldPath = <<K_aa>>
    /\ HasOverride(<<>>, K_a)
    /\ HasOverride(<<K_aa>>, K_bb)
    /\ HasEnvVar(<<K_aa, K_bb>>)
    /\ __getitem__(root_cached_env, held, K_bb).val = runtime_overrides[<<K_aa>>][K_bb]
    /\ DOMAIN clear_runtime_overrides(root_cached_env).overrides = {}

(***************************************************************************)
(* C5                                                                      *)
(***************************************************************************)
\* C5: set_runtime_override, with a str or a sequence, and the assignments
\* that delegate to it fail and leave the store as it is when the key path is
\* empty or when a segment of it is a key that no override, variable or
\* document defines; a call that succeeds names a path whose every segment
\* exists.
NoNewKey ==
    /\ Refused(set_runtime_override(root_cached_env, KeyPathSeq(<<>>), V_z))
    /\ Refused(set_runtime_override(root_cached_env, KeyPathStr(<<>>), V_z))
    /\ \A path \in KeyPaths, value \in OverrideValues :
          ~PathExists(path)
          => /\ Refused(set_runtime_override(root_cached_env, KeyPathSeq(path), value))
             /\ Refused(set_runtime_override(root_cached_env,
                                             KeyPathStr(str_join(DOT, path)), value))
    /\ \A call \in Assignments :
          ~PathExists(HeldPath \o <<call[1]>>)
          => /\ Refused(__setitem__(root_cached_env, held, call[1], call[2]))
             /\ call[1] \in PublicKeys
                => Refused(__setattr__(root_cached_env, held, call[1], call[2]))

\* C5 witness: with an override stored, the empty path, the unknown key q,
\* the unknown key aa.q below a node, a key below the unknown q and a key
\* below the leaf a are all refused.
NoNewKeyWitness ==
    /\ HasOverride(<<K_aa>>, K_bb)
    /\ documents.env = DefaultEnv
    /\ set_runtime_override(root_cached_env, KeyPathSeq(<<>>), V_z).exc = "ValueError"
    /\ set_runtime_override(root_cached_env, KeyPathStr(K_q), V_z).exc = "AssertionError"
    /\ set_runtime_override(root_cached_env, KeyPathSeq(<<K_aa, K_q>>), V_z).exc
         = "AssertionError"
    /\ set_runtime_override(root_cached_env, KeyPathSeq(<<K_q, K_a>>), V_z).exc
         = "AssertionError"
    /\ set_runtime_override(root_cached_env, KeyPathSeq(<<K_a, K_z>>), V_z).exc
         = "AssertionError"

(***************************************************************************)
(* C6                                                                      *)
(***************************************************************************)
\* C6: set_runtime_override and the assignments fail and store nothing when
\* the value is a list, a map, None or an object, and every value in the
\* store is a bool, an int, a float or a str.
OnlyPrimitivesStored ==
    /\ \A path \in KeyPaths, value \in NonPrimitives :
          /\ Refused(set_runtime_override(root_cached_env, KeyPathSeq(path), value))
          /\ Refused(set_runtime_override(root_cached_env,
                                          KeyPathStr(str_join(DOT, path)), value))
    /\ \A key \in PublicKeys, value \in NonPrimitives :
          /\ Refused(__setitem__(root_cached_env, held, key, value))
          /\ Refused(__setattr__(root_cached_env, held, key, value))
    /\ \A e \in OverrideEntries(runtime_overrides) :
          runtime_overrides[e[1]][e[2]][<<>>].ty \in {"bool", "int", "float", "str"}

\* C6 witness: the key a exists and has an int override, the node aa is held
\* and its key bb has a str override; a list, a map, None and an object are
\* refused for both with ValueError.
OnlyPrimitivesStoredWitness ==
    /\ HeldPath = <<K_aa>>
    /\ HasOverride(<<>>, K_a)
    /\ runtime_overrides[<<>>][K_a] = V_1
    /\ HasOverride(<<K_aa>>, K_bb)
    /\ runtime_overrides[<<K_aa>>][K_bb] = V_z
    /\ \A value \in NonPrimitives :
          /\ set_runtime_override(root_cached_env, KeyPathStr(K_a), value).exc
               = "ValueError"
          /\ __setitem__(root_cached_env, held, K_bb, value).exc = "ValueError"

(***************************************************************************)
(* C7                                                                      *)
(***************************************************************************)
\* C7: with documents that load, while CLRENV__Z is set and z has no
\* override and no document value, the root enumerates z and reads it as the
\* variable's value; while CLRENV__Y__YY__YYY is set and nothing else defines
\* these keys, y and y.yy read as child nodes and y.yy.yyy as the variable's
\* value; while the variable is not set, z and y are not found at the root.
EnvVarIntroducesKeys ==
    documents.ok =>
    /\ (~HasOverride(<<>>, K_z) /\ ~InDocuments(<<K_z>>))
       => IF CLRENV__Z \in DOMAIN environ
          THEN /\ K_z \in _sub_keys(root_cached_env, <<>>).keys
               /\ ReadIs(__getitem__(root_cached_env, <<>>, K_z), Str(environ[CLRENV__Z]))
               /\ ReadIs(__getattr__(root_cached_env, <<>>, K_z), Str(environ[CLRENV__Z]))
          ELSE /\ K_z \notin _sub_keys(root_cached_env, <<>>).keys
               /\ __getitem__(root_cached_env, <<>>, K_z).exc = "KeyError"
               /\ __getattr__(root_cached_env, <<>>, K_z).exc = "AttributeError"
    /\ ( /\ ~HasOverride(<<>>, K_y) /\ ~InDocuments(<<K_y>>)
         /\ ~HasOverride(<<K_y>>, K_yy)
         /\ ~HasOverride(<<K_y, K_yy>>, K_yyy) )
       => IF CLRENV__Y__YY__YYY \in DOMAIN environ
          THEN /\ K_y \in _sub_keys(root_cached_env, <<>>).keys
               /\ ReadIs(_navigate(root_cached_env, <<>>, <<K_y>>), EmptyDict)
               /\ ReadIs(_navigate(root_cached_env, <<>>, <<K_y, K_yy>>), EmptyDict)
               /\ ReadIs(_navigate(root_cached_env, <<>>, <<K_y, K_yy, K_yyy>>),
                         Str(environ[CLRENV__Y__YY__YYY]))
          ELSE /\ K_y \notin _sub_keys(root_cached_env, <<>>).keys
               /\ __getitem__(root_cached_env, <<>>, K_y).exc = "KeyError"
               /\ _navigate(root_cached_env, <<>>, <<K_y, K_yy, K_yyy>>).exc
                    = "AttributeError"

\* C7 witness: the caller navigated to y.yy while CLRENV__Y__YY__YYY was set;
\* the variable is removed and CLRENV__Z is set: the root enumerates z and
\* reads it as the variable's value, and y is not found at the root.
EnvVarIntroducesKeysWitness ==
    /\ HeldPath = <<K_y, K_yy>>
    /\ documents.env = DefaultEnv
    /\ CLRENV__Y__YY__YYY \notin DOMAIN environ
    /\ CLRENV__Z \in DOMAIN environ
    /\ _sub_keys(root_cached_env, <<>>).keys = {K_a, K_aa, K_z}
    /\ __getitem__(root_cached_env, <<>>, K_z).val = Str(<<"z">>)
    /\ __getitem__(root_cached_env, <<>>, K_y).exc = "KeyError"

(***************************************************************************)
(* C8                                                                      *)
(***************************************************************************)
\* The keys of the merged subtree at the key path.
DocumentKeys(path) ==
    IF InDocuments(path)
    THEN {d[Len(d)] : d \in {d \in DOMAIN documents.env :
                                /\ Len(d) = Len(path) + 1
                                /\ SubSeq(d, 1, Len(path)) = path}}
    ELSE {}

\* The keys with an override at the key path.
OverrideKeys(path) ==
    {e[2] : e \in {e \in OverrideEntries(runtime_overrides) : e[1] = path}}

\* The lower-case keys whose upper-cased spelling is the segment that follows
\* CLRENV__<PATH>__ in the name of a variable.
EnvVarKeys(path) ==
    {key \in Keys \ {K_A} : HasEnvVar(path \o <<key>>) \/ HasEnvVarBelow(path \o <<key>>)}

\* C8: with documents that load, the keys a node enumerates are the keys of
\* its merged subtree, the keys with an override at its key path and the
\* lower-cased next segments of the variables named CLRENV__<PATH>__..., and
\* no other.
EnumerationIsUnion ==
    documents.ok =>
    /\ _sub_keys(root_cached_env, held).exc = ""
    /\ _sub_keys(root_cached_env, held).keys
         = DocumentKeys(HeldPath) \cup OverrideKeys(HeldPath) \cup EnvVarKeys(HeldPath)

\* C8 witness: the root enumerates a and aa of the documents, z of an
\* override and y of the variable CLRENV__Y__YY__YYY.
EnumerationIsUnionWitness ==
    /\ held = <<>>
    /\ documents.env = DefaultEnv
    /\ HasOverride(<<>>, K_z)
    /\ CLRENV__Y__YY__YYY \in DOMAIN environ
    /\ _sub_keys(root_cached_env, held).keys = {K_a, K_aa, K_z, K_y}

(***************************************************************************)
(* C9                                                                      *)
(***************************************************************************)
\* C9: a key that starts with _ is never read, by item (KeyError) or by
\* attribute (AttributeError), and no node enumerates a key that starts with
\* _, whatever the variables are named.
UnderscoreKeysNeverValid ==
    /\ \A key \in Keys \ PublicKeys :
          /\ __getitem__(root_cached_env, held, key).exc = "KeyError"
          /\ __getattr__(root_cached_env, held, key).exc = "AttributeError"
    /\ documents.ok
       => \A key \in _sub_keys(root_cached_env, held).keys :
             ~str_startswith(key, UNDERSCORE)

(***************************************************************************)
(* C10                                                                     *)
(***************************************************************************)
\* C10: with documents that load, the read of a key that has no override, no
\* variable, no document value and no variable named further down fails with
\* KeyError by item and AttributeError by attribute; the read itself has
\* loaded the documents, which raised nothing.
UnknownKeyNotFound ==
    documents.ok =>
    \A key \in PublicKeys :
        ~KeyExists(HeldPath \o <<key>>)
        => /\ __getitem__(root_cached_env, held, key).exc = "KeyError"
           /\ __getitem__(root_cached_env, held, key).rc = documents.env
           /\ __getattr__(root_cached_env, held, key).exc = "AttributeError"
           /\ __getattr__(root_cached_env, held, key).rc = documents.env

\* C10 witness: nothing is loaded yet after the root is constructed, and the
\* read of the unknown key q loads the documents and is not found.
UnknownKeyNotFoundWitness ==
    /\ root_cached_env = NoneValue
    /\ documents.env = DefaultEnv
    /\ environ # <<>>
    /\ ~KeyExists(<<K_q>>)
    /\ __getitem__(root_cached_env, held, K_q).exc = "KeyError"
    /\ __getitem__(root_cached_env, held, K_q).rc = DefaultEnv
    /\ __getattr__(root_cached_env, held, K_q).exc = "AttributeError"

(***************************************************************************)
(* deepmerge                                                               *)
(***************************************************************************)
\* dst[key] and src[key] are both maps
BothMaps(d, s, key) ==
    /\ key \in dict_keys(d)
    /\ IsMapping(dict_item(d, key))
    /\ IsMapping(dict_item(s, key))

\* C16: deepmerge(dst, src) leaves dst equal to the recursive merge of src
\* into dst: every key of dst that src lacks keeps its value, every key of
\* src whose values in dst and src are not both maps holds the value of src
\* as a whole (a map over a scalar, a scalar or a list over a map, a list
\* over a list), and the maps held by both are merged in the same way.
MergeIsRecursiveMerge ==
    merges = 1 =>
        /\ dst = _merge(dst_before, src)
        /\ \A key \in dict_keys(dst_before) \ dict_keys(src) :
                dict_item(dst, key) = dict_item(dst_before, key)
        /\ \A key \in dict_keys(src) :
                IF BothMaps(dst_before, src, key)
                THEN dict_item(dst, key)
                        = _merge(dict_item(dst_before, key), dict_item(src, key))
                ELSE dict_item(dst, key) = dict_item(src, key)

\* C16 witness: {"a": {"b": 3, "d": 3}} has been merged into
\* {"a": {"b": 1, "c": 1}}, which is now {"a": {"b": 3, "c": 1, "d": 3}}.
MergeIsRecursiveMergeWitness ==
    /\ merges = 1
    /\ dst_before = MergeDst
    /\ src = MergeSrc
    /\ dst = MergeExpected

\* C17: merging src into dst a second time leaves dst as the first merge
\* left it.
MergeIdempotent ==
    merges >= 2 => dst = deepmerge(dst_before, src)

\* C17 witness: src has been merged twice into a dst that the first merge
\* changed, each of the two holding a list under the same key.
MergeIdempotentWitness ==
    /\ merges = 2
    /\ dst # dst_before
    /\ <<K_a>> \in DOMAIN dst_before \cap DOMAIN src
    /\ dst_before[<<K_a>>].ty = "list"
    /\ src[<<K_a>>].ty = "list"
    /\ dst[<<K_a>>] = src[<<K_a>>]


(***************************************************************************)
(* EnvReader.read                                                          *)
(***************************************************************************)
\* The sections are numbered as the claim orders them: for n documents,
\* base(fn), m(fn), ..., base(f1), m(f1) are the sections 1, 2, ..., 2n.
SectionDocument(rank) == Len(environment_paths) - ((rank - 1) \div 2)

\* The section with that number; the empty map when the document is empty
\* or has no such section, or when no mode is set.
SectionAt(rank) ==
    LET config == environment_paths[SectionDocument(rank)]
        name == IF rank % 2 = 1 THEN K_base ELSE reader.mode[<<>>].s
    IN  IF Falsy(config) THEN EmptyDict
        ELSE IF rank % 2 = 0 /\ Falsy(reader.mode) THEN EmptyDict
        ELSE dict_get(config, name, EmptyDict)

\* The section defines the leaf key at path p.
Defines(rank, p) ==
    /\ p \in DOMAIN SectionAt(rank)
    /\ p # <<>>
    /\ SectionAt(rank)[p].ty # "dict"

\* What post-processing makes of a leaf of a section.
PostProcessed(cell) ==
    IF cell.ty = "NoneType" THEN Cell("str", <<>>)
    ELSE IF cell.ty = "str" THEN Cell("str", postprocess_str(reader, cell.s).value)
    ELSE cell

BaseMissing(i) ==
    /\ ~ Falsy(environment_paths[i])
    /\ K_base \notin dict_keys(environment_paths[i])

\* The document at place i is not empty and has a section for the mode.
ModeFound(i) ==
    /\ ~ Falsy(environment_paths[i])
    /\ reader.mode[<<>>].s \in dict_keys(environment_paths[i])

\* A section of the document at place i that is merged is not a map.
SectionNotMap(i) ==
    /\ ~ Falsy(environment_paths[i])
    /\ \/ ~ IsMapping(dict_get(environment_paths[i], K_base, EmptyDict))
       \/ /\ ~ Falsy(reader.mode)
          /\ ~ IsMapping(dict_get(environment_paths[i], reader.mode[<<>>].s, EmptyDict))

Places == 1..Len(environment_paths)

\* C13: a read returns a tree only if every document that is not empty has
\* a base section and, when a mode is set, some document has a section of
\* that name.  The documents are gone through from the last to the first:
\* the first one met that is not empty and has no base section makes the
\* read raise a ValueError that names it; a mode that is set and found in
\* no document makes the read raise a ValueError that names the mode, once
\* all documents have been gone through; an empty document raises neither.
BaseAndModeRequired ==
    result # Unread =>
        /\ result.exc = "" =>
                /\ \A i \in Places : ~ BaseMissing(i)
                /\ ~ Falsy(reader.mode) => \E i \in Places : ModeFound(i)
        /\ \A i \in Places :
                ( /\ BaseMissing(i)
                  /\ \A j \in Places : j > i => ~ BaseMissing(j) /\ ~ SectionNotMap(j) )
                => /\ result.exc = "ValueError"
                   /\ result.about = About("base", i, <<>>, <<>>)
        /\ ( /\ ~ Falsy(reader.mode)
             /\ \A i \in Places : ~ ModeFound(i) /\ ~ BaseMissing(i) /\ ~ SectionNotMap(i) )
           => /\ result.exc = "ValueError"
              /\ result.about = About("mode", 0, <<>>, reader.mode[<<>>].s)
        /\ ( /\ \A i \in Places : Falsy(environment_paths[i]) /\ Falsy(reader.mode) )
           => result.exc = "" /\ result.env = EmptyDict

\* C13 witness: with mode "test", an empty document and one with only a
\* base section were read: the read raised the ValueError that names the
\* mode, and none about the empty document.
BaseAndModeRequiredWitness ==
    /\ result.exc = "ValueError"
    /\ result.about = About("mode", 0, <<>>, K_test)
    /\ Len(environment_paths) = 2
    /\ IsNone(environment_paths[1])
    /\ K_base \in dict_keys(environment_paths[2])


\* The types of the primitive values.
PrimitiveNames == {"bool", "int", "float", "str"}

\* C14: after a read that returns, the merged tree holds no null, and each
\* of its leaves is a bool, an int, a float, a str or a list whose elements
\* are all primitives; a read of documents with a leaf of any other type,
\* a list that holds a map, a null or a list among them, raises.
NoNullAndPrimitiveLeaves ==
    result.exc = "" =>
        \A p \in DOMAIN result.env :
            \/ result.env[p].ty = "dict"
            \/ result.env[p].ty \in PrimitiveNames
            \/ /\ result.env[p].ty = "list"
               /\ \A i \in 1..Len(result.env[p].s) : result.env[p].s[i] \in PrimitiveNames


\* The tree as the merge of the documents leaves it, before the
\* post-processing pass.
MergedTree ==
    read_mode_checked(
        read_configs(environment_paths, Len(environment_paths), reader.mode,
            Merged("", Nothing, EmptyDict, FALSE)),
        reader.mode)

\* A key that is not a str or that starts with an underscore.
BadKey(key) == ~ isinstance_str(key) \/ key[1] = "_"

\* The tree has such a key, at some depth.
HasBadKey(tree) ==
    \E p \in DOMAIN tree : \E i \in 1..Len(p) : p[i] # <<>> /\ BadKey(p[i])

\* C15: when the merged tree has, at any depth, a key that is not a str or
\* that starts with "_", the read raises and returns no tree; a tree that a
\* read returns has no such key.
BadKeyFailsRead ==
    result # Unread =>
        /\ result.exc = "" => ~ HasBadKey(result.env)
        /\ (MergedTree.exc = "" /\ HasBadKey(MergedTree.result))
            => result.exc # "" /\ result.env = NoneValue

\* C15 witness: a read raised ValueError for the key "_x" two maps deep,
\* the mapping that holds it lying under a key that is allowed.
BadKeyFailsReadWitness ==
    /\ result.exc = "ValueError"
    /\ result.about = About("key", 0, <<K_aa, K__x>>, K__x)
    /\ result.env = NoneValue
    /\ HasBadKey(MergedTree.result)


\* CLRENV_OFFLINE_DEV is set to a value that is not empty.
Offline ==
    /\ OFFLINE_PARAMETER_FLAG \in DOMAIN environ
    /\ environ[OFFLINE_PARAMETER_FLAG] # <<>>

\* The leaf at path p of the tree is a ^parameter directive.
IsParameterLeaf(tree, p) ==
    /\ p \in DOMAIN tree
    /\ tree[p].ty = "str"
    /\ str_startswith(expandvars(tree[p].s), ParameterPrefix)

\* C20: when CLRENV_OFFLINE_DEV is set to a non-empty value, a read makes
\* no parameter store client and no request to the parameter store, and in
\* the tree it returns every ^parameter leaf is CLRENV_OFFLINE_PLACEHOLDER.
OfflinePlaceholder ==
    (result # Unread /\ Offline) =>
        /\ ~ reader.ssm_client
        /\ reader.ssm_requests = {}
        /\ result.exc \notin {"EndpointConnectionError", "ParameterNotFound"}
        /\ result.exc = "" =>
                \A p \in DOMAIN result.env :
                    IsParameterLeaf(MergedTree.result, p)
                        => result.env[p] = Cell("str", OFFLINE_PARAMETER_VALUE)

\* C20 witness: with the flag set to "1", a document with two ^parameter
\* leaves, one of them in a nested map, has been read: both hold the
\* placeholder and the reader has made no client.
OfflinePlaceholderWitness ==
    /\ Offline
    /\ result.exc = ""
    /\ ~ reader.ssm_client
    /\ IsParameterLeaf(MergedTree.result, <<K_foo>>)
    /\ IsParameterLeaf(MergedTree.result, <<K_aa, K_bb>>)
    /\ result.env[<<K_foo>>] = Cell("str", OFFLINE_PARAMETER_VALUE)
    /\ result.env[<<K_aa, K_bb>>] = Cell("str", OFFLINE_PARAMETER_VALUE)


(***************************************************************************)
(* The caches and what repr shows                                          *)
(***************************************************************************)
\* C11: a subtree cache that is populated is never fetched again: the
\* cache of the root keeps the tree of its first successful read, an empty
\* tree too, whatever is read, enumerated or overridden and however the
\* documents change afterwards, and so does the cache of every node the
\* caller holds on to.
CacheFetchedOnce ==
    [][ /\ ~ IsNone(root_cached_env) => root_cached_env' = root_cached_env
        /\ \A i \in 1..Len(held) :
                (i <= Len(held') /\ ~ IsNone(held[i].cached_env))
                    => held'[i].cached_env = held[i].cached_env ]_vars

\* The leaf at path p of the merged documents is a ^keyfile or ^parameter
\* directive.
IsSecretLeaf(tree, p) ==
    /\ p # <<>>
    /\ tree[p].ty = "str"
    /\ \/ str_startswith(expandvars(tree[p].s), KeyfilePrefix)
       \/ str_startswith(expandvars(tree[p].s), ParameterPrefix)

\* repr of the held node has the directive and not what it resolves to.
ShowsDirective(shown, directive, secret) ==
    shown.exc = "" =>
        /\ str_contains(shown.val[<<>>].s, directive)
        /\ ~ str_contains(shown.val[<<>>].s, secret)

\* C18: for a leaf that the documents give as a ^keyfile or ^parameter
\* directive and that no override shadows, reading the key at the node
\* that holds it returns the plain value the backend resolves it to, and
\* repr of that node contains the text of the directive and does not
\* contain the resolved value.
SecretNotInRepr ==
    (documents.ok /\ root_cached_env \in {NoneValue, documents.env}) =>
        \A p \in DOMAIN MergedTree.result :
            ( /\ IsSecretLeaf(MergedTree.result, p)
              /\ SubSeq(p, 1, Len(p) - 1) = HeldPath
              /\ ~ HasOverride(HeldPath, p[Len(p)]) ) =>
                /\ ReadIs(__getitem__(root_cached_env, held, p[Len(p)]),
                          Str(postprocess_str(reader, MergedTree.result[p].s).value))
                /\ ShowsDirective(__repr__(root_cached_env, held),
                        MergedTree.result[p].s,
                        postprocess_str(reader, MergedTree.result[p].s).value)


(***************************************************************************)
(* ^chamber/v1                                                             *)
(***************************************************************************)
\* The ^chamber/v1 leaves of the merged documents.
ChamberLeaves ==
    {p \in DOMAIN MergedTree.result \ {<<>>} :
        /\ MergedTree.result[p].ty = "str"
        /\ str_startswith(expandvars(MergedTree.result[p].s), ChamberPrefix)}

\* The argument of the directive at path p.
ChamberArgument(p) == str_from(expandvars(MergedTree.result[p].s), Len(ChamberPrefix))

\* The leaves whose argument has a character outside [A-Za-z0-9_].
InvalidLeaves ==
    {p \in ChamberLeaves : \E i \in 1..Len(ChamberArgument(p)) : ChamberArgument(p)[i] \notin WordChars}

\* The leaves whose upper-cased variable is absent or empty.
MissingLeaves ==
    {p \in ChamberLeaves \ InvalidLeaves :
        \/ str_upper(ChamberArgument(p)) \notin DOMAIN environ
        \/ environ[str_upper(ChamberArgument(p))] = <<>>}

IsStrLeaf(p) ==
    /\ p \in DOMAIN MergedTree.result
    /\ p # <<>>
    /\ MergedTree.result[p].ty = "str"

\* The str at path p of the merged documents with $NAME and ${NAME}
\* replaced from the process environment.
Expanded(p) == expandvars(MergedTree.result[p].s)

\* What the key-file store holds for name, "" when it has no such name.
KeyfileValue(name) ==
    IF name \in DOMAIN backend.keyfile THEN backend.keyfile[name] ELSE <<>>

\* What the parameter store answers for name; the placeholder when offline.
ParameterValue(name) ==
    IF Offline THEN OFFLINE_PARAMETER_VALUE ELSE backend.parameters[name]

\* C21: in the tree a read returns, a str leaf of the merged documents is:
\* its expansion from the process environment put through expanduser when
\* the expansion starts with "~"; else what the key-file store holds for
\* the rest of the expansion when it starts with "^keyfile "; else what
\* the parameter store answers for the rest when it starts with
\* "^parameter "; else the expansion itself.  What a handler returns is in
\* the tree as returned: a "$NAME" or a directive prefix in it is left.
OneHandlerAfterExpansion ==
    result.exc = "" =>
        \A p \in DOMAIN result.env :
            IsStrLeaf(p) =>
                result.env[p] =
                    Cell("str",
                        IF str_startswith(Expanded(p), <<"~">>)
                        THEN expanduser(Expanded(p))
                        ELSE IF str_startswith(Expanded(p), KeyfilePrefix)
                        THEN KeyfileValue(str_from(Expanded(p), Len(KeyfilePrefix)))
                        ELSE IF str_startswith(Expanded(p), ParameterPrefix)
                        THEN ParameterValue(str_from(Expanded(p), Len(ParameterPrefix)))
                        ELSE Expanded(p))

\* C21 witness: with Z set to "^keyfile aaa" and HOME set to "$Z", the
\* leaves "${Z}" and "~" have been read: the first is what the key-file
\* store holds for aaa, the second is "$Z", not expanded again.
OneHandlerAfterExpansionWitness ==
    /\ result.exc = ""
    /\ IsStrLeaf(<<K_foo>>) /\ IsStrLeaf(<<K_bar>>)
    /\ MergedTree.result[<<K_foo>>].s = <<"$", "{", "Z", "}">>
    /\ MergedTree.result[<<K_bar>>].s = <<"~">>
    /\ Expanded(<<K_foo>>) = KeyfileA
    /\ <<"a", "a", "a">> \in DOMAIN backend.keyfile
    /\ result.env[<<K_foo>>] = Cell("str", backend.keyfile[<<"a", "a", "a">>])
    /\ result.env[<<K_bar>>] = Cell("str", <<"$", "Z">>)
    /\ <<"Z">> \in DOMAIN environ


(***************************************************************************)
(* The key-file store of a reader                                          *)
(***************************************************************************)
\* The str leaves of the merged documents that are ^keyfile directives.
KeyfileLeaves ==
    IF MergedTree.exc # "" THEN {}
    ELSE {p \in DOMAIN MergedTree.result \ {<<>>} :
            /\ MergedTree.result[p].ty = "str"
            /\ ~ str_startswith(expandvars(MergedTree.result[p].s), <<"~">>)
            /\ str_startswith(expandvars(MergedTree.result[p].s), KeyfilePrefix)}

\* C22: once a read pass has finished, by returning or by raising, the
\* reader has loaded the key-file store at most once, has loaded it only
\* if the documents have a ^keyfile leaf, and holds it no longer.
KeyfileClearedAfterRead ==
    result # Unread =>
        /\ reader.clrypt_loads <= 1
        /\ reader.clrypt_loads = 1 => KeyfileLeaves # {}
        /\ ~ reader.clrypt_keyfile


(***************************************************************************)
(* What deepmerge does to its sources                                      *)
(***************************************************************************)
\* C23: a source that deepmerge has merged into dst, and every map nested
\* in it, is as it was built, after the call and after every later call
\* that merges a further source into the same dst.
SourcesUnchanged ==
    \A i \in DOMAIN sources :
        object_value(objects, ObjectId(i, <<>>)) = sources[i]


(***************************************************************************)
(* The keys the entries of the store shadow                                *)
(***************************************************************************)
\* Without an override of its own the key path is defined: by its
\* variable, by the documents, or by a variable further down.
ExistsWithoutOverride(path) ==
    \/ HasEnvVar(path)
    \/ InDocuments(path)
    \/ HasEnvVarBelow(path)

\* C24 as claimed: in every reachable state, the key path of every entry
\* of the store is defined without the entry, by a variable or by the
\* documents.
OverridesShadowExisting ==
    \A p \in DOMAIN runtime_overrides :
        \A k \in DOMAIN runtime_overrides[p] :
            ExistsWithoutOverride(p \o <<k>>)

\* C24 as amended: an entry comes into the store only by a call that is
\* made while its key path is defined without it, by a variable or by the
\* documents, and while every segment before the last is a key that
\* exists; it stays in the store until it is deleted or cleared, whatever
\* happens to the variables.
OverridesCreatedOnExisting ==
    [][ \A p \in DOMAIN runtime_overrides' :
            \A k \in DOMAIN runtime_overrides'[p] :
                ~ HasOverride(p, k) =>
                    /\ ExistsWithoutOverride(p \o <<k>>)
                    /\ PathExists(p) ]_vars

\* C24 witness: the store holds an entry for a key that nothing else
\* defines any longer: the variable the key came from has been removed
\* since the override was made.
OverridesCreatedOnExistingWitness ==
    /\ HasOverride(<<>>, K_z)
    /\ ~ ExistsWithoutOverride(<<K_z>>)
    /\ documents.ok
    /\ __getitem__(root_cached_env, <<>>, K_z).exc = ""


(***************************************************************************)
(* Enumeration and reading                                                 *)
(***************************************************************************)
\* The keys that are looked for: the keys of the calls and a key that
\* holds the separator of the variable names.
K_aa__bb == <<"a", "a", "_", "_", "b", "b">>

LookedForKeys == Keys \cup {K_aa__bb, <<>>}

\* Iterating the held node yields the key.
Yielded(key) ==
    /\ _sub_keys(root_cached_env, held).exc = ""
    /\ key \in _sub_keys(root_cached_env, held).keys

\* Reading the key at the held node succeeds: key in node.
Readable(key) == __getitem__(root_cached_env, held, key).exc = ""

\* C25 as claimed: at every node and in every state, iterating the node
\* yields a key if and only if reading the key at the node succeeds.
EnumerationAgreesWithRead ==
    \A key \in LookedForKeys : Yielded(key) <=> Readable(key)

\* A key in lower case that does not start with "_" and does not hold "__".
PlainKey(key) ==
    /\ key = str_lower(key)
    /\ ~ str_startswith(key, UNDERSCORE)
    /\ ~ str_contains(key, DUNDER)

\* C25 as amended: with documents that load, at every node, iterating the
\* node yields a key that is in lower case, does not start with "_" and
\* does not hold "__" if and only if reading that key at the node succeeds.
EnumerationAgreesOnPlainKeys ==
    documents.ok =>
        \A key \in LookedForKeys :
            PlainKey(key) => (Yielded(key) <=> Readable(key))

\* C25 witness: with CLRENV__Z set over documents that define a and aa,
\* the root yields and reads z, a and aa and neither yields nor reads q;
\* the key Z is read and not yielded.
EnumerationAgreesOnPlainKeysWitness ==
    /\ documents.ok
    /\ held = <<>>
    /\ CLRENV__Z \in DOMAIN environ
    /\ Yielded(K_z) /\ Readable(K_z)
    /\ Yielded(K_a) /\ Readable(K_a)
    /\ Yielded(K_aa) /\ Readable(K_aa)
    /\ ~ Yielded(K_q) /\ ~ Readable(K_q)
    /\ Readable(<<"Z">>) /\ ~ Yielded(<<"Z">>)


(***************************************************************************)
(* A read of the documents that fails.                                     *)
(***************************************************************************)
\* The read of key on the held node is answered by no override and by no
\* environment variable.
NeedsDocuments(key) ==
    /\ ~ str_startswith(key, UNDERSCORE)
    /\ ~ HasOverride(HeldPath, key)
    /\ ~ HasEnvVar(HeldPath \o <<key>>)

\* The documents are read by the next access that needs them, and they do
\* not load.
ReadFails == Falsy(root_cached_env) /\ ~ documents.ok

\* r is what an access that made one failing read leaves behind: the
\* exception of the read, and the cache as it was.
FailedRead(r) ==
    /\ r.exc = documents.exc
    /\ r.reads = 1
    /\ r.rc = root_cached_env

\* w is what a write that made one failing read leaves behind
FailedWrite(w) ==
    /\ FailedRead(w)
    /\ w.overrides = runtime_overrides

\* Every access that needs the documents while they do not load
AccessesFail ==
    ReadFails =>
        /\ \A key \in RootKeys :
               NeedsDocuments(key) =>
                   /\ FailedRead(__getitem__(root_cached_env, held, key))
                   /\ FailedRead(__getattr__(root_cached_env, held, key))
                   /\ FailedWrite(__setitem__(root_cached_env, held, key, V_1))
        /\ FailedRead(_sub_keys(root_cached_env, held))
        /\ FailedRead(__repr__(root_cached_env, held))

\* The first access of a root that has read nothing reads the documents
FirstAccessReads ==
    (IsNone(root_cached_env) /\ documents.ok) =>
        /\ \A key \in RootKeys :
               NeedsDocuments(key) =>
                   /\ __getitem__(root_cached_env, held, key).reads >= 1
                   /\ __getitem__(root_cached_env, held, key).rc = documents.env
        /\ __repr__(root_cached_env, held).reads = 1

\* The cache of the root changes only to the tree of documents that load
CacheStep ==
    root_cached_env' # root_cached_env =>
        /\ Falsy(root_cached_env)
        /\ documents.ok
        /\ documents' = documents
        /\ root_cached_env' = documents.env

\* The store changes only while the cache holds a tree or the documents load
StoreStep ==
    runtime_overrides' # runtime_overrides =>
        ~ (IsNone(root_cached_env) /\ ~ documents.ok)

\* C26: the root is constructed without a read, its cache uninitialized and
\* the store empty; the first access that needs the documents reads them;
\* while the documents do not load, every access that needs them raises what
\* the read raised after exactly one read, and leaves the cache and the
\* store as they were; the cache only ever changes to the whole tree of
\* documents that loaded.
FailedReadReachesCaller ==
    /\ IsNone(root_cached_env) /\ runtime_overrides = <<>>
    /\ [](AccessesFail /\ FirstAccessReads)
    /\ [][CacheStep /\ StoreStep]_vars

\* C26 witness: the root has read nothing, the documents fail on a secret
\* that the backend does not have, and the read of a key raises that error.
FailedReadReachesCallerWitness ==
    /\ IsNone(root_cached_env)
    /\ documents.exc = "ParameterNotFound"
    /\ NeedsDocuments(K_a)
    /\ __getitem__(root_cached_env, held, K_a).exc = "ParameterNotFound"
    /\ __getitem__(root_cached_env, held, K_a).reads = 1
    /\ IsNone(__getitem__(root_cached_env, held, K_a).rc)

====
